---- MODULE Spec2Model ----
(***************************************************************************)
(* DataGuard: synthetic demographic records, generated and masked.         *)
(*                                                                         *)
(* Text is modelled as a sequence of one-character strings, so that        *)
(* trimming, parsing and formatting are computed character by character.   *)
(* A value produced by the fake-data provider is the name of the method    *)
(* followed by the decimal digits of k: the result of the k-th call made   *)
(* to the provider.                                                        *)
(***************************************************************************)
EXTENDS Integers, Sequences, FiniteSets, TLC

(***************************************************************************)
(* Bounds of the model.                                                    *)
(***************************************************************************)
MaxRecords == 2
MaxShift == 1
MaxCount == 8
MaxFaultAt == 2
MaxFieldFault == 5
MaxPrior == 3
MaxLines == 2
MaxSaved == 2

\* Progress is logged every so many records.
MaskProgressEvery == 100
GenProgressEvery == 100

\* The date shift of a call that names none.
DefaultShift == 10

(***************************************************************************)
(* Python values.                                                          *)
(***************************************************************************)
\* None: a one-element sequence whose element is no character.
None == <<"<None>">>

\* The empty string ''.
EmptyStr == <<>>

\* Truthiness of a value that is None or a string.
Truthy(v) == v # None /\ v # EmptyStr

\* The value of a local variable: The({body : x \in {e}}) is body with x
\* bound to the value of e, which is computed once.
The(S) == CHOOSE x \in S : TRUE

Whitespace == {" ", "\t"}

\* str.strip(): drop leading and trailing whitespace.
RECURSIVE LStrip(_)
LStrip(s) ==
    IF s # <<>> /\ Head(s) \in Whitespace THEN LStrip(Tail(s)) ELSE s

RECURSIVE RStrip(_)
RStrip(s) ==
    IF s # <<>> /\ s[Len(s)] \in Whitespace
    THEN RStrip(SubSeq(s, 1, Len(s) - 1))
    ELSE s

Strip(s) == RStrip(LStrip(s))

UpperChars == <<"A", "B", "C", "D", "E", "F", "L", "M">>
LowerChars == <<"a", "b", "c", "d", "e", "f", "l", "m">>

\* str.lower() on the letters the model uses.
LowerChar(c) ==
    IF \E k \in 1..Len(UpperChars) : UpperChars[k] = c
    THEN LowerChars[CHOOSE k \in 1..Len(UpperChars) : UpperChars[k] = c]
    ELSE c

Lower(s) == [k \in 1..Len(s) |-> LowerChar(s[k])]

\* str.upper() on the letters the model uses.
UpperChar(c) ==
    IF \E k \in 1..Len(LowerChars) : LowerChars[k] = c
    THEN UpperChars[CHOOSE k \in 1..Len(LowerChars) : LowerChars[k] = c]
    ELSE c

Upper(s) == [k \in 1..Len(s) |-> UpperChar(s[k])]

\* str.replace(c, ""), for a single character c.
RemoveChar(s, c) == SelectSeq(s, LAMBDA x : x # c)

(***************************************************************************)
(* Calendar arithmetic of datetime: proleptic Gregorian ordinals, day 1    *)
(* being 0001-01-01.                                                       *)
(***************************************************************************)
MINYEAR == 1
MAXYEAR == 9999

IsLeap(y) == y % 4 = 0 /\ (y % 100 # 0 \/ y % 400 = 0)

DaysInMonth(y, m) ==
    IF m = 2 THEN (IF IsLeap(y) THEN 29 ELSE 28)
    ELSE IF m \in {4, 6, 9, 11} THEN 30 ELSE 31

DaysBeforeYear(y) ==
    (y - 1) * 365 + (y - 1) \div 4 - (y - 1) \div 100 + (y - 1) \div 400

RECURSIVE DaysBeforeMonth(_, _)
DaysBeforeMonth(y, m) ==
    IF m = 1 THEN 0 ELSE DaysBeforeMonth(y, m - 1) + DaysInMonth(y, m - 1)

\* datetime.toordinal()
ToOrdinal(dt) ==
    DaysBeforeYear(dt.year) + DaysBeforeMonth(dt.year, dt.month) + dt.day

MaxOrdinal == ToOrdinal([year |-> MAXYEAR, month |-> 12, day |-> 31])

\* date.fromordinal(): the 400/100/4/1-year cycle decomposition.
\* n is the day of the year y, counted from 0.
MonthOf(y, n) ==
    CHOOSE m \in 1..12 :
        /\ DaysBeforeMonth(y, m) <= n
        /\ n < DaysBeforeMonth(y, m) + DaysInMonth(y, m)

DateInYear(y, m, n) ==
    [year |-> y, month |-> m, day |-> n - DaysBeforeMonth(y, m) + 1]

\* The cycles before day n0 (counted from 0) and the days left over.
Cycles(n0) ==
    [n400 |-> n0 \div 146097,
     n100 |-> (n0 % 146097) \div 36524,
     n4   |-> ((n0 % 146097) % 36524) \div 1461,
     n1   |-> (((n0 % 146097) % 36524) % 1461) \div 365,
     n    |-> (((n0 % 146097) % 36524) % 1461) % 365]

FromCycles(c, y) ==
    IF c.n1 = 4 \/ c.n100 = 4
    THEN [year |-> y - 1, month |-> 12, day |-> 31]
    ELSE DateInYear(y, MonthOf(y, c.n), c.n)

YearOfCycles(c) == c.n400 * 400 + 1 + c.n100 * 100 + c.n4 * 4 + c.n1

FromOrdinal(ord) ==
    The({FromCycles(c, YearOfCycles(c)) : c \in {Cycles(ord - 1)}})

\* A date the datetime constructor accepts.
ValidDate(y, m, d) ==
    /\ y >= MINYEAR /\ y <= MAXYEAR
    /\ m >= 1 /\ m <= 12
    /\ d >= 1 /\ d <= DaysInMonth(y, m)

(***************************************************************************)
(* Outcomes of a call: exc is "none" when the call returned val, else the  *)
(* class of the exception it raised.                                       *)
(***************************************************************************)
NoDate == [year |-> 0, month |-> 0, day |-> 0]

Returned(v) == [exc |-> "none", val |-> v]
Raised(e, v) == [exc |-> e, val |-> v]

(***************************************************************************)
(* dateutil.parser.parse on the strings the model draws: three numeric     *)
(* tokens separated by "-", one of them (the first or the last) longer     *)
(* than two digits and so taken as the year, or text that is no date.      *)
(* Strings whose year has two digits depend on the current date and are    *)
(* not drawn.                                                              *)
(***************************************************************************)
DigitChars == <<"0", "1", "2", "3", "4", "5", "6", "7", "8", "9">>

IsDigit(c) == \E k \in 1..10 : DigitChars[k] = c

DigitVal(c) == (CHOOSE k \in 1..10 : DigitChars[k] = c) - 1

\* The largest value of a C int; a datetime field beyond it overflows.
IntMax == 2147483647
TooBig == -1

\* int(token), kept only up to IntMax: TooBig stands for every larger value.
RECURSIVE ParseIntFrom(_, _)
ParseIntFrom(acc, s) ==
    IF s = <<>> THEN acc
    ELSE IF acc = TooBig \/ acc > (IntMax - DigitVal(Head(s))) \div 10
         THEN ParseIntFrom(TooBig, Tail(s))
         ELSE ParseIntFrom(acc * 10 + DigitVal(Head(s)), Tail(s))

ParseInt(s) == ParseIntFrom(0, s)

\* v > k, for a value that may be TooBig.
Exceeds(v, k) == v = TooBig \/ v > k

RECURSIVE SplitFrom(_, _, _)
SplitFrom(cur, s, sep) ==
    IF s = <<>> THEN <<cur>>
    ELSE IF Head(s) = sep THEN <<cur>> \o SplitFrom(<<>>, Tail(s), sep)
         ELSE SplitFrom(Append(cur, Head(s)), Tail(s), sep)

\* str.split(sep)
SplitOn(s, sep) == SplitFrom(<<>>, s, sep)

IsNumber(tok) == tok # <<>> /\ \A k \in 1..Len(tok) : IsDigit(tok[k])

\* The three values as year-month-day, read as year-month-day,
\* day-month-year or month-day-year; long holds the tokens of over two digits.
ResolveYmd(v, long) ==
    IF Exceeds(v[1], 31) \/ 1 \in long THEN <<v[1], v[2], v[3]>>
    ELSE IF Exceeds(v[1], 12) THEN <<v[3], v[2], v[1]>>
    ELSE <<v[3], v[1], v[2]>>

\* The datetime constructor on the resolved fields.
BuildDate(ymd) ==
    IF \E k \in 1..3 : ymd[k] = TooBig
    THEN Raised("OverflowError", NoDate)
    ELSE IF ~ValidDate(ymd[1], ymd[2], ymd[3])
         THEN Raised("ValueError", NoDate)
    ELSE Returned([year |-> ymd[1], month |-> ymd[2], day |-> ymd[3]])

ParseTokens(toks, long) ==
    IF Cardinality(long) > 1 THEN Raised("ValueError", NoDate)
    ELSE BuildDate(ResolveYmd([k \in 1..3 |-> ParseInt(toks[k])], long))

ParseSplit(toks) ==
    IF Len(toks) # 3 \/ \E k \in 1..3 : ~IsNumber(toks[k])
    THEN Raised("ValueError", NoDate)
    ELSE ParseTokens(toks, {k \in 1..3 : Len(toks[k]) > 2})

Parse(raw) == The({ParseSplit(toks) : toks \in {SplitOn(raw, "-")}})

(***************************************************************************)
(* strftime('%m-%d-%Y'): two digits, two digits, the year in decimal.      *)
(***************************************************************************)
Fmt2(n) == <<DigitChars[(n \div 10) + 1], DigitChars[(n % 10) + 1]>>

RECURSIVE Decimal(_)
Decimal(n) ==
    IF n < 10 THEN <<DigitChars[n + 1]>>
    ELSE Append(Decimal(n \div 10), DigitChars[(n % 10) + 1])

Strftime(dt) ==
    Fmt2(dt.month) \o <<"-">> \o Fmt2(dt.day) \o <<"-">> \o Decimal(dt.year)

(***************************************************************************)
(* DataMasker.add_days.  startdate is a string (type "str", its text), a   *)
(* datetime (type "datetime", its date) or a value of another type.        *)
(***************************************************************************)
StrArg(s) == [type |-> "str", text |-> s, date |-> NoDate]
DateArg(dt) == [type |-> "datetime", text |-> EmptyStr, date |-> dt]
OtherArg == [type |-> "other", text |-> EmptyStr, date |-> NoDate]

PlusDays_Clamp(dt, days) ==
    The({IF o <= 0 THEN Returned(FromOrdinal(1))
         ELSE IF o > MaxOrdinal THEN Returned(FromOrdinal(MaxOrdinal))
         ELSE Returned(FromOrdinal(o)) : o \in {ToOrdinal(dt) + days}})

\* datetime + timedelta(days): out of 0001-01-01..9999-12-31 overflows.
PlusDays(dt, days) ==
    The({IF 0 < o /\ o <= MaxOrdinal
         THEN Returned(FromOrdinal(o))
         ELSE Raised("OverflowError", NoDate) : o \in {ToOrdinal(dt) + days}})

\* A string is parsed first; a datetime is taken as it is.
AsDate(startdate) ==
    IF startdate.type = "str"
    THEN Parse(startdate.text)
    ELSE Returned(startdate.date)

add_days_Abs(startdate, days) ==
    The({IF startdate.type = "str" /\ parsed.exc \in {"ValueError", "TypeError"}
         THEN Raised("ValueError", NoDate)
         ELSE IF parsed.exc # "none" THEN parsed
         ELSE IF startdate.type \notin {"str", "datetime"}
              THEN Raised("TypeError", NoDate)
         ELSE PlusDays(parsed.val, IF days < 0 THEN -days ELSE days)
         : parsed \in {AsDate(startdate)}})

add_days(startdate, days) ==
    The({IF startdate.type = "str" /\ parsed.exc \in {"ValueError", "TypeError"}
         THEN Raised("ValueError", NoDate)
         ELSE IF parsed.exc # "none" THEN parsed
         ELSE IF startdate.type \notin {"str", "datetime"}
              THEN Raised("TypeError", NoDate)
         ELSE PlusDays(parsed.val, days)
         : parsed \in {AsDate(startdate)}})

\* The message of the exception add_days raises itself: the malformed
\* string is named after a fixed prefix; '' when add_days raises nothing
\* of its own.
add_days_message(startdate) ==
    IF startdate.type = "str"
    THEN (IF Parse(startdate.text).exc \in {"ValueError", "TypeError"}
          THEN <<"Invalid date format: ">> \o startdate.text
          ELSE EmptyStr)
    ELSE IF startdate.type # "datetime"
         THEN <<"startdate must be a datetime object or date string">>
    ELSE EmptyStr

(***************************************************************************)
(* The fake-data provider (the module-level Faker instance).  Its state is *)
(* the number n of calls made so far; F is the set of calls that raise.    *)
(* A call returns [exc, val, n]: the outcome and the provider's new state. *)
(***************************************************************************)
Call(method, n, F) ==
    [exc |-> IF (n + 1) \in F THEN "ProviderError" ELSE "none",
     val |-> <<method>> \o Decimal(n + 1),
     n   |-> n + 1]

\* fake.address(): the formatted address the provider hands out is full.
CallAddress(full, n, F) ==
    [exc |-> IF (n + 1) \in F THEN "ProviderError" ELSE "none",
     val |-> full,
     n   |-> n + 1]

\* The outcome of a generator that failed at the provider call c.
Failed(c, empty) == [exc |-> c.exc, val |-> empty, n |-> c.n]

generateSSN(n, F) == Call("ssn", n, F)

generateCreditCardNumber(n, F) == Call("credit_card_number", n, F)

(***************************************************************************)
(* DataMasker.generate_uuid.  The provider's uuid4 is 36 characters: five  *)
(* groups of lowercase hexadecimal digits joined by hyphens; the digits    *)
(* vary with the number of the call.                                       *)
(***************************************************************************)
HexChars ==
    <<"0", "1", "2", "3", "4", "5", "6", "7", "8", "9",
      "a", "b", "c", "d", "e", "f">>

\* The value of the k-th call of fake.uuid4().
Uuid4Of(k) ==
    [p \in 1..36 |->
        IF p \in {9, 14, 19, 24} THEN "-"
        ELSE HexChars[((k * (p + 1) + p) % Len(HexChars)) + 1]]

\* fake.uuid4()
CallUuid4(n, F) ==
    [exc |-> IF (n + 1) \in F THEN "ProviderError" ELSE "none",
     val |-> Uuid4Of(n + 1),
     n   |-> n + 1]

generate_uuid_Lowercase(n, F) ==
    The({IF uuid.exc # "none" THEN Failed(uuid, EmptyStr)
         ELSE [uuid EXCEPT !.val = RemoveChar(uuid.val, "-")]
         : uuid \in {CallUuid4(n, F)}})

generate_uuid(n, F) ==
    The({IF uuid.exc # "none" THEN Failed(uuid, EmptyStr)
         ELSE [uuid EXCEPT !.val = Upper(RemoveChar(uuid.val, "-"))]
         : uuid \in {CallUuid4(n, F)}})

(***************************************************************************)
(* DataMasker.generateName                                                 *)
(***************************************************************************)
MaleStr == <<"m", "a", "l", "e">>
FemaleStr == <<"f", "e", "m", "a", "l", "e">>

NoName == [firstName |-> EmptyStr, lastName |-> EmptyStr]

\* A hint that is no string and not None, such as a number.
NotAString == <<"<int>">>

\* The first-name generator the hint selects.
FirstNameMethod(gender) ==
    IF gender = None THEN "first_name"
    ELSE IF Lower(gender) = MaleStr THEN "first_name_male"
    ELSE IF Lower(gender) = FemaleStr THEN "first_name_female"
    ELSE "first_name"

\* The except branch: both names again, unconditioned.
NameOf(f, l) ==
    [exc |-> "none", val |-> [firstName |-> f.val, lastName |-> l.val],
     n |-> l.n]

NameFallback_Raise(n, F) == [exc |-> "Exception", val |-> NoName, n |-> n]

\* The except branch: both names again, unconditioned.
NameFallback(n, F) ==
    The({IF f.exc # "none" THEN Failed(f, NoName)
         ELSE The({IF l.exc # "none" THEN Failed(l, NoName) ELSE NameOf(f, l)
                   : l \in {Call("last_name", f.n, F)}})
         : f \in {Call("first_name", n, F)}})

generateName_CaseSensitive(gender, n, F) ==
    IF gender = NotAString THEN NameFallback(n, F)
    ELSE
    The({IF f.exc # "none" THEN NameFallback(f.n, F)
         ELSE The({IF l.exc # "none" THEN NameFallback(l.n, F) ELSE NameOf(f, l)
                   : l \in {Call("last_name", f.n, F)}})
         : f \in {Call(IF gender = MaleStr THEN "first_name_male"
                       ELSE IF gender = FemaleStr THEN "first_name_female"
                       ELSE "first_name", n, F)}})

\* gender.lower() of a hint that is no string raises inside the try block.
generateName(gender, n, F) ==
    IF gender = NotAString THEN NameFallback(n, F)
    ELSE
    The({IF f.exc # "none" THEN NameFallback(f.n, F)
         ELSE The({IF l.exc # "none" THEN NameFallback(l.n, F) ELSE NameOf(f, l)
                   : l \in {Call("last_name", f.n, F)}})
         : f \in {Call(FirstNameMethod(gender), n, F)}})

(***************************************************************************)
(* DataMasker.generateAddress                                              *)
(***************************************************************************)
\* str.splitlines()
SplitLines(s) ==
    The({IF parts[Len(parts)] = <<>>
         THEN SubSeq(parts, 1, Len(parts) - 1)
         ELSE parts : parts \in {SplitOn(s, "\n")}})

\* str.split(): the maximal runs of non-whitespace characters.
RECURSIVE SplitWsFrom(_, _)
SplitWsFrom(cur, s) ==
    IF s = <<>> THEN (IF cur = <<>> THEN <<>> ELSE <<cur>>)
    ELSE IF Head(s) \in Whitespace
         THEN (IF cur = <<>> THEN <<>> ELSE <<cur>>) \o SplitWsFrom(<<>>, Tail(s))
         ELSE SplitWsFrom(Append(cur, Head(s)), Tail(s))

SplitWs(s) == SplitWsFrom(<<>>, s)

NoAddress ==
    [address |-> EmptyStr, city |-> EmptyStr, state |-> EmptyStr,
     postalCode |-> EmptyStr]

\* The four fields, each from its own provider call.
TokenOr_Empty(tokens, k, method, n, F) ==
    IF Len(tokens) >= k
    THEN [exc |-> "none", val |-> tokens[k], n |-> n]
    ELSE [exc |-> "none", val |-> EmptyStr, n |-> n]

\* tokens[k] if there is one, else a field from the provider.  The outcome
\* carries the value and the provider's state.
TokenOr(tokens, k, method, n, F) ==
    IF Len(tokens) >= k
    THEN [exc |-> "none", val |-> tokens[k], n |-> n]
    ELSE Call(method, n, F)

\* The address of four fields, z being the last one obtained.
AddressWith(address, city, state, z) ==
    [exc |-> "none",
     val |-> [address |-> address, city |-> city, state |-> state,
              postalCode |-> z.val],
     n   |-> z.n]

\* State and postal code, each a token of the list or a provider call.
StateZip(address, city, tokens, k, n, F) ==
    The({IF s.exc # "none" THEN Failed(s, NoAddress)
         ELSE The({IF z.exc # "none" THEN Failed(z, NoAddress)
                   ELSE AddressWith(address, city, s.val, z)
                   : z \in {TokenOr(tokens, k + 1, "postcode", s.n, F)}})
         : s \in {TokenOr(tokens, k, "state_abbr", n, F)}})

AddressFallback(n, F) ==
    The({IF a.exc # "none" THEN Failed(a, NoAddress)
         ELSE The({IF c.exc # "none" THEN Failed(c, NoAddress)
                   ELSE StateZip(a.val, c.val, <<>>, 1, c.n, F)
                   : c \in {Call("city", a.n, F)}})
         : a \in {Call("street_address", n, F)}})

\* Line 2 holds a comma: city before it, state and postal code after it.
AddressComma(line1, line2, n, F) ==
    The({StateZip(line1, Strip(cityStateZip[1]),
                  SplitWs(Strip(cityStateZip[2])), 1, n, F)
         : cityStateZip \in {SplitOn(line2, ",")}})

AddressNoComma_Shifted(line1, line2, n, F) ==
    The({The({IF c.exc # "none" THEN Failed(c, NoAddress)
              ELSE StateZip(line1, c.val, cityStateZip, 1, c.n, F)
              : c \in {TokenOr(cityStateZip, 1, "city", n, F)}})
         : cityStateZip \in {SplitWs(line2)}})

\* Line 2 holds no comma: its first three words.
AddressNoComma(line1, line2, n, F) ==
    The({The({IF c.exc # "none" THEN Failed(c, NoAddress)
              ELSE StateZip(line1, c.val, cityStateZip, 2, c.n, F)
              : c \in {TokenOr(cityStateZip, 1, "city", n, F)}})
         : cityStateZip \in {SplitWs(line2)}})

\* The try block after fake.address() returned fullAddress.
Decompose(addressParts, n, F) ==
    IF Len(addressParts) < 2 THEN AddressFallback(n, F)
    ELSE IF \E k \in 1..Len(addressParts[2]) : addressParts[2][k] = ","
         THEN AddressComma(addressParts[1], addressParts[2], n, F)
    ELSE AddressNoComma(addressParts[1], addressParts[2], n, F)

OrFallback_Raise(tried, F) == tried

\* The except clause: whatever the try block raised, the four fields again.
OrFallback(tried, F) ==
    IF tried.exc # "none" THEN AddressFallback(tried.n, F) ELSE tried

\* fake.address() and the try block.
TryAddress(fullAddress, F) ==
    IF fullAddress.exc # "none"
    THEN [exc |-> fullAddress.exc, val |-> NoAddress, n |-> fullAddress.n]
    ELSE Decompose(SplitLines(fullAddress.val), fullAddress.n, F)

generateAddress(full, n, F) ==
    OrFallback(TryAddress(CallAddress(full, n, F), F), F)

(***************************************************************************)
(* DataMasker.generateContact                                              *)
(***************************************************************************)
NoContact == [email |-> EmptyStr, phone |-> EmptyStr]

\* The except branch: username@domain and a numerified pattern.
ContactOf(email, p) ==
    [exc |-> "none", val |-> [email |-> email, phone |-> p.val], n |-> p.n]

PhonePattern ==
    <<"#", "#", "#", "-", "#", "#", "#", "-", "#", "#", "#", "#">>

Numerify_Unfilled(pattern, k) == pattern

\* fake.numerify(pattern): every "#" becomes a digit, which varies with the
\* number k of the call; the other characters stay.
Numerify(pattern, k) ==
    [p \in 1..Len(pattern) |->
        IF pattern[p] = "#" THEN DigitChars[((k + 3 * p) % 10) + 1]
        ELSE pattern[p]]

ContactFallback(n, F) ==
    The({IF u.exc # "none" THEN Failed(u, NoContact)
         ELSE The({IF d.exc # "none" THEN Failed(d, NoContact)
                   ELSE The({IF p.exc # "none" THEN Failed(p, NoContact)
                             ELSE ContactOf(u.val \o <<"@">> \o d.val,
                                            [p EXCEPT !.val =
                                                Numerify(PhonePattern, p.n)])
                             : p \in {Call("numerify", d.n, F)}})
                   : d \in {Call("domain_name", u.n, F)}})
         : u \in {Call("user_name", n, F)}})

generateContact(n, F) ==
    The({IF e.exc # "none" THEN ContactFallback(e.n, F)
         ELSE The({IF p.exc # "none" THEN ContactFallback(p.n, F)
                   ELSE ContactOf(e.val, p)
                   : p \in {Call("phone_number", e.n, F)}})
         : e \in {Call("email", n, F)}})

(***************************************************************************)
(* The formatted addresses the provider hands out, by the number of the    *)
(* call: street and "City, ST zip"; street and "CITY ST zip" (a military   *)
(* address); a single line.                                                *)
(***************************************************************************)
AddressFormats ==
    << <<"1", " ", "A", "\n", "B", " ", "C", ",", " ", "D", " ", "9">>,
       <<"2", " ", "E", "\n", "F", " ", "G", " ", "8">>,
       <<"3", " ", "H">> >>

AddressOf(k) == AddressFormats[(k % Len(AddressFormats)) + 1]

(***************************************************************************)
(* The logging observer: each event is a level, a name, a count and a text.*)
(***************************************************************************)
LogEntry(level, event, count, text) ==
    [level |-> level, event |-> event, count |-> count, text |-> text]

(***************************************************************************)
(* DemographicsMasking.mask_demographic_record.  The outcome carries the   *)
(* masked record, the provider's state and the events logged.              *)
(***************************************************************************)
NoMasked ==
    [ssn |-> EmptyStr, birthDate |-> EmptyStr, gender |-> EmptyStr,
     firstName |-> EmptyStr, lastName |-> EmptyStr, address |-> EmptyStr,
     city |-> EmptyStr, state |-> EmptyStr, postalCode |-> EmptyStr,
     phone |-> EmptyStr, email |-> EmptyStr]

HasBirthDate(input_record) ==
    "birthDate" \in DOMAIN input_record /\ Truthy(input_record["birthDate"])

\* parse, add_days and strftime of a non-empty birthDate; val is the text.
ShiftBirthDate(raw, date_shift_days) ==
    The({IF birth_date.exc # "none" THEN Raised(birth_date.exc, EmptyStr)
         ELSE The({IF shifted.exc # "none" THEN Raised(shifted.exc, EmptyStr)
                   ELSE Returned(Strftime(shifted.val))
                   : shifted \in {add_days(DateArg(birth_date.val),
                                           date_shift_days)}})
         : birth_date \in {Parse(raw)}})

MaskBirthDate_CatchAll(input_record, date_shift_days) ==
    IF HasBirthDate(input_record)
    THEN The({IF r.exc # "none"
              THEN [exc |-> "none", val |-> input_record["birthDate"],
                    log |-> <<LogEntry("warning", "invalid_birth_date", 0,
                                       input_record["birthDate"])>>]
              ELSE [exc |-> r.exc, val |-> r.val, log |-> <<>>]
              : r \in {ShiftBirthDate(input_record["birthDate"],
                                      date_shift_days)}})
    ELSE [exc |-> "none", val |-> EmptyStr, log |-> <<>>]

\* The birthDate block: the inner try recovers ValueError and TypeError.
MaskBirthDate(input_record, date_shift_days) ==
    IF HasBirthDate(input_record)
    THEN The({IF r.exc \in {"ValueError", "TypeError"}
              THEN [exc |-> "none", val |-> input_record["birthDate"],
                    log |-> <<LogEntry("warning", "invalid_birth_date", 0,
                                       input_record["birthDate"])>>]
              ELSE [exc |-> r.exc, val |-> r.val, log |-> <<>>]
              : r \in {ShiftBirthDate(input_record["birthDate"],
                                      date_shift_days)}})
    ELSE [exc |-> "none", val |-> EmptyStr, log |-> <<>>]

MaskGender_Verbatim(input_record) ==
    IF "gender" \notin DOMAIN input_record THEN Returned(EmptyStr)
    ELSE IF input_record["gender"] = None
         THEN Raised("AttributeError", EmptyStr)
    ELSE Returned(input_record["gender"])

\* input_record.get('gender', '').strip()
MaskGender(input_record) ==
    IF "gender" \notin DOMAIN input_record THEN Returned(EmptyStr)
    ELSE IF input_record["gender"] = None
         THEN Raised("AttributeError", EmptyStr)
    ELSE Returned(Strip(input_record["gender"]))

\* The except clause of the record: log the error and raise it again.
RecordFailed(exc, n, log) ==
    [exc |-> exc, val |-> NoMasked, n |-> n,
     log |-> Append(log, LogEntry("error", "error_masking", 0, EmptyStr))]

\* The masked record, built from the outcomes of the generators.
AssembleMasked_CopySSN(input_record, ssn, birth, gender, name, address, contact) ==
    [ssn        |-> IF "ssn" \in DOMAIN input_record
                    THEN input_record["ssn"]
                    ELSE ssn.val,
     birthDate  |-> birth.val,
     gender     |-> gender.val,
     firstName  |-> name.val.firstName,
     lastName   |-> name.val.lastName,
     address    |-> address.val.address,
     city       |-> address.val.city,
     state      |-> address.val.state,
     postalCode |-> address.val.postalCode,
     phone      |-> contact.val.phone,
     email      |-> contact.val.email]

AssembleMasked(input_record, ssn, birth, gender, name, address, contact) ==
    [ssn        |-> ssn.val,
     birthDate  |-> birth.val,
     gender     |-> gender.val,
     firstName  |-> name.val.firstName,
     lastName   |-> name.val.lastName,
     address    |-> address.val.address,
     city       |-> address.val.city,
     state      |-> address.val.state,
     postalCode |-> address.val.postalCode,
     phone      |-> contact.val.phone,
     email      |-> contact.val.email]

\* The statements of the try block in order, each after the outcomes of
\* the ones before it; the first that raises ends the record.
MaskContact(input_record, ssn, birth, gender, name, address, contact) ==
    IF contact.exc # "none" THEN RecordFailed(contact.exc, contact.n, birth.log)
    ELSE [exc |-> "none",
          val |-> AssembleMasked(input_record, ssn, birth, gender, name,
                                 address, contact),
          n   |-> contact.n,
          log |-> birth.log]

MaskAddress(input_record, ssn, birth, gender, name, address, F) ==
    IF address.exc # "none" THEN RecordFailed(address.exc, address.n, birth.log)
    ELSE MaskContact(input_record, ssn, birth, gender, name, address,
                     generateContact(address.n, F))

MaskName(input_record, ssn, birth, gender, name, F) ==
    IF name.exc # "none" THEN RecordFailed(name.exc, name.n, birth.log)
    ELSE MaskAddress(input_record, ssn, birth, gender, name,
                     generateAddress(AddressOf(name.n + 1), name.n, F), F)

MaskFromGender(input_record, ssn, birth, gender, F) ==
    IF gender.exc # "none" THEN RecordFailed(gender.exc, ssn.n, birth.log)
    ELSE MaskName(input_record, ssn, birth, gender,
                  generateName(IF gender.val # EmptyStr THEN gender.val ELSE None,
                               ssn.n, F),
                  F)

MaskFromBirthDate(input_record, ssn, birth, F) ==
    IF birth.exc # "none" THEN RecordFailed(birth.exc, ssn.n, birth.log)
    ELSE MaskFromGender(input_record, ssn, birth, MaskGender(input_record), F)

MaskFromSSN(input_record, date_shift_days, ssn, F) ==
    IF ssn.exc # "none" THEN RecordFailed(ssn.exc, ssn.n, <<>>)
    ELSE MaskFromBirthDate(input_record, ssn,
                           MaskBirthDate(input_record, date_shift_days), F)

mask_demographic_record(input_record, date_shift_days, n, F) ==
    MaskFromSSN(input_record, date_shift_days, generateSSN(n, F), F)

(***************************************************************************)
(* State.                                                                  *)
(***************************************************************************)
VARIABLES
    calls,            \* the provider: calls made so far
    log,              \* the events the logging observer has received
    input_data,       \* mask_demographics_batch: its records
    date_shift_days,  \*   its date shift
    mpc,              \*   "idle", "call", "loop", "done"
    i,                \*   records processed so far
    masked_data,      \*   the output list
    errors,           \*   the error counter
    history,          \*   per processed record: the provider state and
                      \*   faults it ran against and its outcome
    records,          \* generate_batch: its argument
    gpc,              \*   "idle", "call", "loop", "done", "raised"
    gi,               \*   records generated so far
    batch,            \*   the list being built
    gresult,          \*   its outcome
    startdate,        \* add_days: its arguments
    days,
    dpc,              \*   "idle", "call", "done"
    dresult,          \*   its outcome
    dmsg,             \*   the message of the exception it raised itself
    fop,              \* a field generator: "idle", "address", "name",
                      \*   "contact", "uuid"
    farg,             \*   its argument, or what the provider hands out
    fF,               \*   the provider calls that raise
    fprior,           \*   the provider calls made before it
    fpc,              \*   "idle", "call", "done"
    fresult,          \*   its outcome
    iop,              \* tabular I/O: "idle", "load", "save_to_csv",
                      \*   "save_masked_data"
    ipc,              \*   "idle", "call", "done"
    dir_exists,       \*   the parent directory of the path exists
    file,             \*   the file at the path: exists and its rows
    permitted,        \*   the process may read and write there
    idata,            \*   the records to save
    iresult,          \*   its outcome
    rop,              \* a run of a program: "idle", "mask", "generate"
    rpc,              \*   "idle", "start", "load", "mask", "generate",
                      \*   "exit", "read_back"
    stages,           \*   the stages it started, in order
    exit_code,        \*   the exit code of the process, -1 while it runs
    in_file,          \*   the input file of a masking run
    elapsed           \*   the seconds the clock shows it took

maskVars == <<input_data, date_shift_days, mpc, i, masked_data, errors, history>>
genVars == <<records, gpc, gi, batch, gresult>>
dateVars == <<startdate, days, dpc, dresult, dmsg>>
fieldVars == <<fop, farg, fF, fprior, fpc, fresult>>
ioVars == <<iop, ipc, dir_exists, file, permitted, idata, iresult>>
runVars == <<rop, rpc, stages, exit_code, in_file, elapsed>>
vars == <<calls, log, maskVars, genVars, dateVars, fieldVars, ioVars, runVars>>

MaskIdle ==
    /\ input_data = <<>> /\ date_shift_days = 0 /\ mpc = "idle" /\ i = 0
    /\ masked_data = <<>> /\ errors = 0 /\ history = <<>>

GenIdle ==
    /\ records = [type |-> "int", v |-> 0] /\ gpc = "idle" /\ gi = 0
    /\ batch = <<>> /\ gresult = Returned(<<>>)

DateIdle ==
    /\ startdate = OtherArg /\ days = 0 /\ dpc = "idle"
    /\ dresult = Returned(NoDate) /\ dmsg = EmptyStr

FieldIdle ==
    /\ fop = "idle" /\ farg = EmptyStr /\ fF = {} /\ fprior = 0
    /\ fpc = "idle"
    /\ fresult = [exc |-> "none", val |-> EmptyStr, n |-> 0]

\* No file at the path.
NoFile == [exists |-> FALSE, rows |-> <<>>]

IoIdle ==
    /\ iop = "idle" /\ ipc = "idle" /\ dir_exists = TRUE /\ file = NoFile
    /\ permitted = TRUE /\ idata = <<>>
    /\ iresult = [exc |-> "none", cause |-> "none", val |-> <<>>]

RunIdle ==
    /\ rop = "idle" /\ rpc = "idle" /\ stages = <<>> /\ exit_code = -1
    /\ in_file = NoFile /\ elapsed = 1

(***************************************************************************)
(* Input records: rows as csv.DictReader yields them.  A cell missing from *)
(* a short row is None; a column missing from the file is no key at all.   *)
(***************************************************************************)
PersonA ==
    [ssn |-> <<"1", "1">>, firstName |-> <<"A", "n", "n">>,
     lastName |-> <<"L", "e", "e">>, address |-> <<"1", " ", "X">>,
     city |-> <<"Y">>, state |-> <<"Z">>, postalCode |-> <<"7">>,
     email |-> <<"a", "@", "x">>, phone |-> <<"5", "5">>]

PersonB ==
    [ssn |-> <<"2", "2">>, firstName |-> <<"B", "o", "b">>,
     lastName |-> <<"R", "a", "y">>, address |-> <<"2", " ", "U">>,
     city |-> <<"V">>, state |-> <<"W">>, postalCode |-> <<"6">>,
     email |-> <<"b", "@", "x">>, phone |-> <<"6", "6">>]

Date1990 == <<"0", "1", "-", "0", "1", "-", "1", "9", "9", "0">>
DateLeap == <<"0", "2", "-", "2", "8", "-", "2", "0", "0", "0">>
DateLast == <<"1", "2", "-", "3", "1", "-", "9", "9", "9", "9">>
DateDayFirst == <<"3", "1", "-", "1", "2", "-", "1", "9", "9", "9">>
DateNoMonth == <<"0", "2", "-", "3", "0", "-", "1", "9", "9", "0">>
DateWords == <<"n", "o", "-", "d", "a", "t", "e">>
DateHugeYear ==
    <<"0", "1", "-", "0", "1", "-",
      "9", "9", "9", "9", "9", "9", "9", "9", "9", "9", "9">>

GenderMale == <<"M", "a", "l", "e">>
GenderPadded == <<" ", "F", "E", "M", "A", "L", "E", "\t">>
GenderOther == <<"x">>

InputRecords ==
    { PersonA @@ [birthDate |-> Date1990, gender |-> GenderMale],
      PersonB @@ [birthDate |-> Date1990, gender |-> GenderMale],
      PersonA @@ [birthDate |-> DateLast, gender |-> GenderPadded],
      PersonB @@ [birthDate |-> DateWords, gender |-> EmptyStr],
      PersonA @@ [birthDate |-> DateHugeYear, gender |-> GenderOther],
      PersonB @@ [birthDate |-> EmptyStr, gender |-> None],
      PersonA }

\* The sequences over S of length at most n.
SeqsUpTo(S, n) == UNION {[1..k -> S] : k \in 0..n}

\* The faults of one record: none, or its k-th provider call raises.
FaultSets(n) == {{}} \cup {{n + k} : k \in 1..MaxFaultAt}

(***************************************************************************)
(* DemographicsMasking.mask_demographics_batch                             *)
(***************************************************************************)
MaskInit ==
    /\ calls = 0
    /\ log = <<>>
    /\ input_data \in SeqsUpTo(InputRecords, MaxRecords)
    /\ date_shift_days \in ((-MaxShift)..MaxShift) \cup {DefaultShift}
    /\ mpc = "call"
    /\ i = 0
    /\ masked_data = <<>>
    /\ errors = 0
    /\ history = <<>>
    /\ GenIdle
    /\ DateIdle
    /\ FieldIdle
    /\ IoIdle
    /\ RunIdle

MaskBatchBegin ==
    /\ mpc = "call"
    /\ log' = Append(log, LogEntry("info", "masking", Len(input_data), EmptyStr))
    /\ masked_data' = <<>>
    /\ errors' = 0
    /\ i' = 0
    /\ mpc' = "loop"
    /\ UNCHANGED <<calls, input_data, date_shift_days, history, genVars, dateVars,
                   fieldVars, ioVars, runVars>>

\* What the loop body logs around the call for record number k (from 0).
ProgressLog(k) ==
    IF k % MaskProgressEvery = 0 /\ k > 0
    THEN <<LogEntry("info", "progress", k, EmptyStr)>>
    ELSE <<>>

\* The loop body after the call: a masked record is appended; a record
\* that raised is counted and leaves the list alone.
AfterRecord_NoCount(masked, errs, r) ==
    IF r.exc = "none"
    THEN [masked_data |-> Append(masked, r.val), errors |-> errs]
    ELSE [masked_data |-> masked, errors |-> errs]

AfterRecord_Prepend(masked, errs, r) ==
    IF r.exc = "none"
    THEN [masked_data |-> <<r.val>> \o masked, errors |-> errs]
    ELSE [masked_data |-> masked, errors |-> errs + 1]

AfterRecord_Overwrite(masked, errs, r) ==
    IF r.exc = "none"
    THEN [masked_data |-> IF masked = <<>> THEN <<r.val>>
                          ELSE Append([masked EXCEPT ![Len(masked)] = r.val],
                                      r.val),
          errors |-> errs]
    ELSE [masked_data |-> masked, errors |-> errs + 1]

AfterRecord(masked, errs, r) ==
    IF r.exc = "none"
    THEN [masked_data |-> Append(masked, r.val), errors |-> errs]
    ELSE [masked_data |-> masked, errors |-> errs + 1]

\* One iteration of the loop: the record is masked and appended, or it
\* raised, is logged and counted.
MaskBatchRecord ==
    /\ mpc = "loop"
    /\ i < Len(input_data)
    /\ \E F \in FaultSets(calls) :
       \E r \in {mask_demographic_record(input_data[i + 1], date_shift_days,
                                         calls, F)} :
       \E after \in {AfterRecord(masked_data, errors, r)} :
         /\ calls' = r.n
         /\ history' = Append(history,
                              [record |-> input_data[i + 1], n |-> calls,
                               F |-> F, exc |-> r.exc, val |-> r.val])
         /\ masked_data' = after.masked_data
         /\ errors' = after.errors
         /\ log' = log \o ProgressLog(i) \o r.log \o
                   (IF r.exc = "none" THEN <<>>
                    ELSE <<LogEntry("error", "failed_record", i + 1,
                                    EmptyStr)>>)
    /\ i' = i + 1
    /\ UNCHANGED <<input_data, date_shift_days, mpc, genVars, dateVars,
                   fieldVars, ioVars, runVars>>

FinalReport_Always(masked, errs) ==
    <<LogEntry("info", "masked_total", Len(masked), EmptyStr),
      LogEntry("warning", "skipped_total", errs, EmptyStr)>>

\* The events logged after the loop.
FinalReport(masked, errs) ==
    <<LogEntry("info", "masked_total", Len(masked), EmptyStr)>> \o
    (IF errs > 0
     THEN <<LogEntry("warning", "skipped_total", errs, EmptyStr)>>
     ELSE <<>>)

MaskBatchReturn ==
    /\ mpc = "loop"
    /\ i = Len(input_data)
    /\ log' = log \o FinalReport(masked_data, errors)
    /\ mpc' = "done"
    /\ UNCHANGED <<calls, input_data, date_shift_days, i, masked_data, errors,
                   history, genVars, dateVars,
                   fieldVars, ioVars, runVars>>

MaskNext == MaskBatchBegin \/ MaskBatchRecord \/ MaskBatchReturn

Spec == MaskInit /\ [][MaskNext]_vars

(***************************************************************************)
(* DemographicsGenerator.generateDemographics                              *)
(***************************************************************************)
NoMember ==
    [ssn |-> EmptyStr, creditCard |-> EmptyStr, firstName |-> EmptyStr,
     lastName |-> EmptyStr, address |-> EmptyStr, city |-> EmptyStr,
     state |-> EmptyStr, postalCode |-> EmptyStr, phone |-> EmptyStr,
     email |-> EmptyStr]

MemberFailed(exc, n) ==
    [exc |-> exc, val |-> NoMember, n |-> n,
     log |-> <<LogEntry("error", "error_generating", 0, EmptyStr)>>]

\* The statements of the try block in order, each after the outcomes of
\* the ones before it; the first that raises ends the record.
MemberContact(ssn, card, name, address, contact) ==
    IF contact.exc # "none" THEN MemberFailed(contact.exc, contact.n)
    ELSE [exc |-> "none",
          val |-> [ssn        |-> ssn.val,
                   creditCard |-> card.val,
                   firstName  |-> name.val.firstName,
                   lastName   |-> name.val.lastName,
                   address    |-> address.val.address,
                   city       |-> address.val.city,
                   state      |-> address.val.state,
                   postalCode |-> address.val.postalCode,
                   phone      |-> contact.val.phone,
                   email      |-> contact.val.email],
          n   |-> contact.n,
          log |-> <<>>]

MemberAddress(ssn, card, name, address, F) ==
    IF address.exc # "none" THEN MemberFailed(address.exc, address.n)
    ELSE MemberContact(ssn, card, name, address, generateContact(address.n, F))

MemberName(ssn, card, name, F) ==
    IF name.exc # "none" THEN MemberFailed(name.exc, name.n)
    ELSE MemberAddress(ssn, card, name,
                       generateAddress(AddressOf(name.n + 1), name.n, F), F)

MemberCard(ssn, card, F) ==
    IF card.exc # "none" THEN MemberFailed(card.exc, card.n)
    ELSE MemberName(ssn, card, generateName(None, card.n, F), F)

MemberSSN(ssn, F) ==
    IF ssn.exc # "none" THEN MemberFailed(ssn.exc, ssn.n)
    ELSE MemberCard(ssn, generateCreditCardNumber(ssn.n, F), F)

generateDemographics(n, F) == MemberSSN(generateSSN(n, F), F)

(***************************************************************************)
(* DemographicsGenerator.generate_batch.  Its argument is                  *)
(* [type |-> "int", v |-> k], or a float or a string ([v |-> 0]).          *)
(***************************************************************************)
CountArgs ==
    {[type |-> "int", v |-> k] : k \in (-MaxCount)..MaxCount}
        \cup {[type |-> "float", v |-> 0], [type |-> "str", v |-> 0]}

BadCount_Negative(arg) == arg.type # "int" \/ arg.v < 0

\* not isinstance(records, int) or records <= 0
BadCount(arg) == arg.type # "int" \/ arg.v <= 0

GenInit ==
    /\ calls = 0
    /\ log = <<>>
    /\ records \in CountArgs
    /\ gpc = "call"
    /\ gi = 0
    /\ batch = <<>>
    /\ gresult = Returned(<<>>)
    /\ MaskIdle
    /\ DateIdle
    /\ FieldIdle
    /\ IoIdle
    /\ RunIdle

\* The argument check raises.
GenBatchReject ==
    /\ gpc = "call"
    /\ BadCount(records)
    /\ gpc' = "raised"
    /\ gresult' = Raised("ValueError", <<>>)
    /\ UNCHANGED <<calls, log, records, gi, batch, maskVars, dateVars,
                   fieldVars, ioVars, runVars>>

GenBatchBegin ==
    /\ gpc = "call"
    /\ ~BadCount(records)
    /\ log' = Append(log, LogEntry("info", "generating", records.v, EmptyStr))
    /\ batch' = <<>>
    /\ gi' = 0
    /\ gpc' = "loop"
    /\ UNCHANGED <<calls, records, gresult, maskVars, dateVars,
                   fieldVars, ioVars, runVars>>

GenProgressLog(k) ==
    IF k % GenProgressEvery = 0 /\ k > 0
    THEN <<LogEntry("info", "progress", k, EmptyStr)>>
    ELSE <<>>

BatchAppend_Front(b, member) == <<member>> \o b

\* batch.append(...)
BatchAppend(b, member) == Append(b, member)

\* One iteration: a record is appended, or its failure ends the call.
GenBatchRecord ==
    /\ gpc = "loop"
    /\ gi < records.v
    /\ \E F \in FaultSets(calls) :
       \E r \in {generateDemographics(calls, F)} :
         /\ calls' = r.n
         /\ log' = log \o GenProgressLog(gi) \o r.log
         /\ IF r.exc = "none"
            THEN /\ batch' = BatchAppend(batch, r.val)
                 /\ gi' = gi + 1
                 /\ UNCHANGED <<gpc, gresult>>
            ELSE /\ gpc' = "raised"
                 /\ gresult' = Raised(r.exc, <<>>)
                 /\ UNCHANGED <<batch, gi>>
    /\ UNCHANGED <<records, maskVars, dateVars,
                   fieldVars, ioVars, runVars>>

GenBatchReturn ==
    /\ gpc = "loop"
    /\ gi = records.v
    /\ log' = Append(log, LogEntry("info", "generated_total", records.v, EmptyStr))
    /\ gresult' = Returned(batch)
    /\ gpc' = "done"
    /\ UNCHANGED <<calls, records, gi, batch, maskVars, dateVars,
                   fieldVars, ioVars, runVars>>

GenNext == GenBatchReject \/ GenBatchBegin \/ GenBatchRecord \/ GenBatchReturn

SpecGen == GenInit /\ [][GenNext]_vars

(***************************************************************************)
(* DataMasker.add_days, applied to one pair of arguments.                  *)
(***************************************************************************)
DateStrings ==
    {Date1990, DateLeap, DateLast, DateDayFirst, DateNoMonth, DateWords,
     DateHugeYear,
     <<"2", "0", "2", "3", "-", "0", "1", "-", "0", "1">>,
     <<"1", "9", "0", "0", "-", "0", "3", "-", "0", "1">>}

Dates ==
    {[year |-> 2023, month |-> 1, day |-> 1],
     [year |-> 2024, month |-> 2, day |-> 28],
     [year |-> 1900, month |-> 2, day |-> 28],
     [year |-> 1999, month |-> 12, day |-> 31],
     [year |-> 9999, month |-> 12, day |-> 30],
     [year |-> 2000, month |-> 2, day |-> 29],
     [year |-> 2100, month |-> 3, day |-> 1],
     [year |-> 1, month |-> 1, day |-> 2]}

DateInit ==
    /\ calls = 0
    /\ log = <<>>
    /\ startdate \in {StrArg(s) : s \in DateStrings}
                         \cup {DateArg(d) : d \in Dates} \cup {OtherArg}
    /\ days \in (-MaxShift)..MaxShift
    /\ dpc = "call"
    /\ dresult = Returned(NoDate)
    /\ dmsg = EmptyStr
    /\ MaskIdle
    /\ GenIdle
    /\ FieldIdle
    /\ IoIdle
    /\ RunIdle

AddDays ==
    /\ dpc = "call"
    /\ dresult' = add_days(startdate, days)
    /\ dmsg' = add_days_message(startdate)
    /\ dpc' = "done"
    /\ UNCHANGED <<calls, log, startdate, days, maskVars, genVars,
                   fieldVars, ioVars, runVars>>

DateNext == AddDays

SpecDate == DateInit /\ [][DateNext]_vars

(***************************************************************************)
(* One call of a field generator of DataMasker: generateAddress,           *)
(* generateName, generateContact or generate_uuid, after any number of     *)
(* earlier calls to the provider.                                          *)
(***************************************************************************)
Hints ==
    {None, GenderMale, MaleStr, FemaleStr,
     <<"F", "e", "m", "a", "l", "e">>, <<"F", "E", "M", "A", "L", "E">>,
     <<"b", "o", "g", "u", "s">>, NotAString}

\* Formatted addresses: a street line, then a line of city, state and
\* postal code with or without a comma and with tokens missing, a third
\* line, a trailing line break, a single line, no text at all.
FieldAddresses ==
    {AddressFormats[1], AddressFormats[2], AddressFormats[3],
     <<"4", " ", "I", "\n", "J", ",", " ", "K">>,
     <<"5", " ", "L", "\n", "M", ",">>,
     <<"6", " ", "N", "\n", "O", " ", "P">>,
     <<"7", " ", "Q", "\n", "R">>,
     <<"8", " ", "S", "\n", " ">>,
     <<"9", " ", "T", "\n", "U", ",", " ", "V", " ", "7", "\n", "W">>,
     <<"1", "0", " ", "X", "\n", "Y", ",", " ", "Z", " ", "6", "\n">>,
     <<>>}

\* The faults of one call of a generator: any of the next provider calls
\* may raise.
FieldFaults(n) == SUBSET ((n + 1)..(n + MaxFieldFault))

FieldInit ==
    /\ calls \in 0..MaxPrior
    /\ log = <<>>
    /\ fop \in {"address", "name", "contact", "uuid"}
    /\ farg \in (IF fop = "address" THEN FieldAddresses
                  ELSE IF fop = "name" THEN Hints
                  ELSE {EmptyStr})
    /\ fF \in FieldFaults(calls)
    /\ fprior = calls
    /\ fpc = "call"
    /\ fresult = [exc |-> "none", val |-> EmptyStr, n |-> 0]
    /\ MaskIdle
    /\ GenIdle
    /\ DateIdle
    /\ IoIdle
    /\ RunIdle

\* The generator returned or raised; the provider has moved on.
FieldDone(r) ==
    /\ fresult' = r
    /\ calls' = r.n
    /\ fpc' = "done"
    /\ UNCHANGED <<log, fop, farg, fF, fprior, maskVars, genVars, dateVars,
                   ioVars, runVars>>

GenerateAddress ==
    /\ fop = "address" /\ fpc = "call"
    /\ FieldDone(generateAddress(farg, calls, fF))

GenerateName ==
    /\ fop = "name" /\ fpc = "call"
    /\ FieldDone(generateName(farg, calls, fF))

GenerateContact ==
    /\ fop = "contact" /\ fpc = "call"
    /\ FieldDone(generateContact(calls, fF))

GenerateUuid ==
    /\ fop = "uuid" /\ fpc = "call"
    /\ FieldDone(generate_uuid(calls, fF))

FieldNext == GenerateAddress \/ GenerateName \/ GenerateContact \/ GenerateUuid

SpecField == FieldInit /\ [][FieldNext]_vars

(***************************************************************************)
(* Tabular I/O.  A file is its rows, a row its cells; the first row of a   *)
(* table is the header, whose cells are the column names; a row without    *)
(* cells is a blank line.                                                  *)
(***************************************************************************)
\* The key csv.DictReader files the surplus cells of a long row under.
RestKey == "<None>"

\* The last column of the header that is named k.
ColumnOf(fieldnames, k) ==
    CHOOSE j \in 1..Len(fieldnames) :
        /\ fieldnames[j] = k
        /\ \A l \in (j + 1)..Len(fieldnames) : fieldnames[l] # k

\* csv.DictReader.__next__ for a row with cells: a missing cell is None,
\* the surplus cells are a list under the rest key.
ReadRow(fieldnames, cells) ==
    [k \in {fieldnames[j] : j \in 1..Len(fieldnames)} \cup
           (IF Len(cells) > Len(fieldnames) THEN {RestKey} ELSE {}) |->
        IF k = RestKey
        THEN SubSeq(cells, Len(fieldnames) + 1, Len(cells))
        ELSE IF ColumnOf(fieldnames, k) <= Len(cells)
             THEN cells[ColumnOf(fieldnames, k)]
             ELSE None]

\* any(row.values()): a string with a character is true, None and '' are
\* false, the list of surplus cells has an element and is true.
AnyValue(row) ==
    \E k \in DOMAIN row : IF k = RestKey THEN Len(row[k]) > 0 ELSE Truthy(row[k])

\* The loop over the reader from line k on; the reader passes over blank
\* lines without yielding them, row_num counts the rows it yields.
RECURSIVE LoadFrom(_, _, _, _)
LoadFrom(fieldnames, lines, k, row_num) ==
    IF k > Len(lines) THEN [data |-> <<>>, log |-> <<>>]
    ELSE IF Len(lines[k]) = 0 THEN LoadFrom(fieldnames, lines, k + 1, row_num)
    ELSE The({IF AnyValue(row)
              THEN [data |-> <<row>> \o rest.data, log |-> rest.log]
              ELSE [data |-> rest.data,
                    log  |-> <<LogEntry("warning", "skipping_row", row_num,
                                        EmptyStr)>> \o rest.log]
              : row \in {ReadRow(fieldnames, lines[k])},
                rest \in {LoadFrom(fieldnames, lines, k + 1, row_num + 1)}})

\* The except clause of load_demographics_data: the outcome is the
\* exception and the one it was raised from, no value, the events logged.
LoadFailed(cause, events) ==
    [exc |-> "IOError", cause |-> cause, val |-> <<>>,
     log |-> events \o <<LogEntry("error", "error_reading", 0, EmptyStr)>>]

LoadRows(fieldnames, loaded) ==
    IF Len(loaded.data) = 0
    THEN LoadFailed("ValueError",
                    <<LogEntry("info", "columns", Len(fieldnames), EmptyStr)>>
                    \o loaded.log)
    ELSE [exc |-> "none", cause |-> "none", val |-> loaded.data,
          log |-> <<LogEntry("info", "columns", Len(fieldnames), EmptyStr)>>
                  \o loaded.log \o
                  <<LogEntry("info", "loaded", Len(loaded.data), EmptyStr)>>]

load_demographics_data(f, readable) ==
    IF ~f.exists
    THEN [exc |-> "FileNotFoundError", cause |-> "none", val |-> <<>>,
          log |-> <<>>]
    ELSE IF ~readable THEN LoadFailed("PermissionError", <<>>)
    ELSE IF Len(f.rows) = 0 THEN LoadFailed("ValueError", <<>>)
    ELSE IF Len(f.rows[1]) = 0 THEN LoadFailed("ValueError", <<>>)
    ELSE LoadRows(f.rows[1], LoadFrom(f.rows[1], f.rows, 2, 1))

\* The columns save_masked_data and save_to_csv write.
MaskedFieldnames ==
    <<"ssn", "birthDate", "gender", "firstName", "lastName", "address",
      "city", "state", "postalCode", "email", "phone">>

GeneratedFieldnames ==
    <<"ssn", "creditCard", "firstName", "lastName", "address", "city",
      "state", "postalCode", "email", "phone">>

\* A writer that ignores the order of its fieldnames.
RowCells_Reversed(fieldnames, record) ==
    [j \in 1..Len(fieldnames) |->
        IF fieldnames[Len(fieldnames) + 1 - j] \notin DOMAIN record
        THEN EmptyStr
        ELSE record[fieldnames[Len(fieldnames) + 1 - j]]]

\* csv.DictWriter: the cells of one record; a column the record lacks and
\* a value of None are written as ''.
RowCells(fieldnames, record) ==
    [j \in 1..Len(fieldnames) |->
        IF fieldnames[j] \notin DOMAIN record THEN EmptyStr
        ELSE IF record[fieldnames[j]] = None THEN EmptyStr
        ELSE record[fieldnames[j]]]

WriteFrom_AllOrNothing(fieldnames, data, k) ==
    IF \E j \in k..Len(data) :
          ~(DOMAIN data[j] \subseteq {fieldnames[c] : c \in 1..Len(fieldnames)})
    THEN [exc |-> "ValueError", rows |-> <<>>]
    ELSE [exc  |-> "none",
          rows |-> [j \in 1..(Len(data) - k + 1) |->
                       RowCells(fieldnames, data[j + k - 1])]]

\* writer.writerows from record k on: the rows go to the file one by one;
\* a record with a key outside the columns raises and ends the writing.
RECURSIVE WriteFrom(_, _, _)
WriteFrom(fieldnames, data, k) ==
    IF k > Len(data) THEN [exc |-> "none", rows |-> <<>>]
    ELSE IF ~(DOMAIN data[k] \subseteq {fieldnames[j] : j \in 1..Len(fieldnames)})
    THEN [exc |-> "ValueError", rows |-> <<>>]
    ELSE The({[rest EXCEPT !.rows = <<RowCells(fieldnames, data[k])>> \o @]
              : rest \in {WriteFrom(fieldnames, data, k + 1)}})

\* What a save leaves behind: its exception and the one it was raised
\* from, the directory, the file, the events logged.
SaveOutcome(exc, cause, dir, f, events) ==
    [exc |-> exc, cause |-> cause, val |-> <<>>, dir_exists |-> dir,
     file |-> f, log |-> events]

\* The try block with its except clause: the directory is made, the file
\* opened for writing and so emptied, the header and the rows written.
WriteTable(data, fieldnames, dir, f, writable, written) ==
    IF ~writable
    THEN SaveOutcome("IOError", "PermissionError", dir, f,
                     <<LogEntry("error", "error_saving", 0, EmptyStr)>>)
    ELSE IF written.exc # "none"
    THEN SaveOutcome("IOError", written.exc, TRUE,
                     [exists |-> TRUE, rows |-> <<fieldnames>> \o written.rows],
                     <<LogEntry("error", "error_saving", 0, EmptyStr)>>)
    ELSE SaveOutcome("none", "none", TRUE,
                     [exists |-> TRUE, rows |-> <<fieldnames>> \o written.rows],
                     <<LogEntry("info", "saved", 0, EmptyStr)>>)

SaveTable_CheckLate(data, fieldnames, dir, f, writable) ==
    IF Len(data) = 0
    THEN SaveOutcome("ValueError", "none", writable \/ dir,
                     IF writable THEN [exists |-> TRUE, rows |-> <<>>] ELSE f,
                     <<>>)
    ELSE WriteTable(data, fieldnames, dir, f, writable,
                    WriteFrom(fieldnames, data, 1))

\* The body the two save functions share: no data raises before the try.
SaveTable(data, fieldnames, dir, f, writable) ==
    IF Len(data) = 0 THEN SaveOutcome("ValueError", "none", dir, f, <<>>)
    ELSE WriteTable(data, fieldnames, dir, f, writable,
                    WriteFrom(fieldnames, data, 1))

\* A save that writes whatever it is given, a table of no rows too.
save_masked_data_Unchecked(data, dir, f, writable) ==
    WriteTable(data, MaskedFieldnames, dir, f, writable,
               WriteFrom(MaskedFieldnames, data, 1))

save_masked_data(data, dir, f, writable) ==
    SaveTable(data, MaskedFieldnames, dir, f, writable)

save_to_csv(data, dir, f, writable) ==
    SaveTable(data, GeneratedFieldnames, dir, f, writable)

(***************************************************************************)
(* One call of load_demographics_data, save_to_csv or save_masked_data     *)
(* against a file system.                                                  *)
(***************************************************************************)
Header == <<"firstName", "gender">>

\* Lines of a table: blank, every cell empty, a cell with text, more cells
\* than columns and all empty, a cell of white space, fewer cells than
\* columns, one quoted empty cell.
DataRows ==
    {<<>>,
     <<EmptyStr, EmptyStr>>,
     <<<<"x">>, EmptyStr>>,
     <<EmptyStr, EmptyStr, EmptyStr>>,
     <<<<" ">>, EmptyStr>>,
     <<<<"y">>>>,
     <<EmptyStr>>}

Tables ==
    {<<>>} \cup
    {<<h>> \o d : h \in {Header, <<>>}, d \in SeqsUpTo(DataRows, MaxLines)}

\* A Generated record, a Masked record, a legacy record with a uuid, a
\* record of one column, a record with a None value.
SaveRecords ==
    {[k \in {GeneratedFieldnames[j] : j \in 1..Len(GeneratedFieldnames)}
         |-> <<"g">>],
     [k \in {MaskedFieldnames[j] : j \in 1..Len(MaskedFieldnames)}
         |-> <<"m">>],
     [k \in {GeneratedFieldnames[j] : j \in 1..Len(GeneratedFieldnames)}
             \cup {"uuid"} |-> <<"u">>],
     [ssn |-> <<"1">>],
     [ssn |-> <<"2">>, firstName |-> None]}

OldTable == <<Header, <<<<"o">>, <<"l">>>>, <<<<"d">>, EmptyStr>>>>

IoInit ==
    /\ calls = 0
    /\ log = <<>>
    /\ iop \in {"load", "save_to_csv", "save_masked_data"}
    /\ ipc = "call"
    /\ dir_exists \in BOOLEAN
    /\ file \in (IF ~dir_exists THEN {NoFile}
                 ELSE IF iop = "load"
                 THEN {NoFile} \cup {[exists |-> TRUE, rows |-> t] : t \in Tables}
                 ELSE {NoFile, [exists |-> TRUE, rows |-> OldTable]})
    /\ permitted \in BOOLEAN
    /\ idata \in (IF iop = "load" THEN {<<>>}
                  ELSE SeqsUpTo(SaveRecords, MaxSaved))
    /\ iresult = [exc |-> "none", cause |-> "none", val |-> <<>>]
    /\ MaskIdle
    /\ GenIdle
    /\ DateIdle
    /\ FieldIdle
    /\ RunIdle

Load ==
    /\ iop = "load" /\ ipc = "call"
    /\ \E r \in {load_demographics_data(file, permitted)} :
         /\ iresult' = [exc |-> r.exc, cause |-> r.cause, val |-> r.val]
         /\ log' = log \o r.log
    /\ ipc' = "done"
    /\ UNCHANGED <<calls, iop, dir_exists, file, permitted, idata, maskVars,
                   genVars, dateVars, fieldVars, runVars>>

\* The save ended: the file system and the log are as it left them.
Saved(r) ==
    /\ iresult' = [exc |-> r.exc, cause |-> r.cause, val |-> r.val]
    /\ dir_exists' = r.dir_exists
    /\ file' = r.file
    /\ log' = log \o r.log
    /\ ipc' = "done"
    /\ UNCHANGED <<calls, iop, permitted, idata, maskVars, genVars, dateVars,
                   fieldVars, runVars>>

SaveToCsv ==
    /\ iop = "save_to_csv" /\ ipc = "call"
    /\ \E r \in {save_to_csv(idata, dir_exists, file, permitted)} : Saved(r)

SaveMaskedData ==
    /\ iop = "save_masked_data" /\ ipc = "call"
    /\ \E r \in {save_masked_data(idata, dir_exists, file, permitted)} : Saved(r)

IoNext == Load \/ SaveToCsv \/ SaveMaskedData

SpecIo == IoInit /\ [][IoNext]_vars

(***************************************************************************)
(* A run of a program from its command line: DemographicsMasking loads,    *)
(* masks and saves; DemographicsGenerator generates and saves.  The batch   *)
(* functions run as the steps above; the process ends with an exit code.   *)
(***************************************************************************)
\* What main logs when it fails, and __main__ after it.
RunFailedLog(event) ==
    <<LogEntry("error", event, 0, EmptyStr),
      LogEntry("error", "unexpected_error", 0, EmptyStr)>>

\* A main that swallows what its stages raise.
AfterSave_Swallow(r, event, rate, seconds) ==
    [exit_code |-> 0,
     log |-> r.log \o <<LogEntry("error", event, 0, EmptyStr)>>]

\* main after the save r: a failed save fails the run; else the times are
\* logged, and the rate, a division by the seconds elapsed, when rate is
\* true.
AfterSave(r, event, rate, seconds) ==
    IF r.exc # "none"
    THEN [exit_code |-> 1, log |-> r.log \o RunFailedLog(event)]
    ELSE IF rate /\ seconds = 0
    THEN [exit_code |-> 1,
          log |-> r.log \o <<LogEntry("info", "completed", 0, EmptyStr),
                             LogEntry("info", "execution_time", seconds,
                                      EmptyStr)>>
                  \o RunFailedLog(event)]
    ELSE [exit_code |-> 0,
          log |-> r.log \o <<LogEntry("info", "completed", 0, EmptyStr),
                             LogEntry("info", "execution_time", seconds,
                                      EmptyStr)>>
                  \o (IF rate
                      THEN <<LogEntry("info", "records_per_second", 0,
                                      EmptyStr)>>
                      ELSE <<>>)]

RunHeader == <<"birthDate", "gender">>

\* Rows of an input file: one that masks, one whose birthDate cannot be
\* shifted forward, one without its gender cell.
RunRows ==
    {<<Date1990, GenderMale>>, <<DateLast, GenderOther>>, <<Date1990>>}

\* Input files: none, one that cannot be read, an empty one, tables.
RunFiles ==
    {[exists |-> FALSE, rows |-> <<>>, readable |-> TRUE],
     [exists |-> TRUE, rows |-> <<RunHeader, <<Date1990, GenderMale>>>>,
      readable |-> FALSE],
     [exists |-> TRUE, rows |-> <<>>, readable |-> TRUE]}
    \cup {[exists |-> TRUE, rows |-> <<RunHeader>> \o d, readable |-> TRUE]
            : d \in SeqsUpTo(RunRows, MaxRecords)}

RunInit ==
    /\ calls = 0
    /\ log = <<>>
    /\ rop \in {"mask", "generate"}
    /\ rpc = "start"
    /\ stages = <<>>
    /\ exit_code = -1
    /\ elapsed \in {0, 1}
    /\ in_file \in (IF rop = "mask" THEN RunFiles ELSE {NoFile})
    /\ date_shift_days \in (IF rop = "mask" THEN (-MaxShift)..MaxShift ELSE {0})
    /\ input_data = <<>> /\ mpc = "idle" /\ i = 0
    /\ masked_data = <<>> /\ errors = 0 /\ history = <<>>
    /\ records \in (IF rop = "generate"
                    THEN {[type |-> "int", v |-> k] : k \in (-1)..MaxRecords}
                    ELSE {[type |-> "int", v |-> 0]})
    /\ gpc = "idle" /\ gi = 0 /\ batch = <<>> /\ gresult = Returned(<<>>)
    /\ iop = "idle" /\ ipc = "idle" /\ idata = <<>>
    /\ iresult = [exc |-> "none", cause |-> "none", val |-> <<>>]
    /\ dir_exists \in BOOLEAN
    /\ file = (IF dir_exists THEN [exists |-> TRUE, rows |-> OldTable]
               ELSE NoFile)
    /\ permitted \in BOOLEAN
    /\ DateIdle
    /\ FieldIdle

\* The process ends with the code; nothing else of the run moves.
RunExit(code, events) ==
    /\ exit_code' = code
    /\ log' = log \o events
    /\ rpc' = "exit"

\* DemographicsMasking: __main__ checks the shift, main logs its start and
\* loads the input; the records loaded go to mask_demographics_batch.
MaskRunLoad ==
    /\ rop = "mask" /\ rpc = "start"
    /\ IF date_shift_days < 0
       THEN /\ RunExit(1, <<LogEntry("error", "bad_date_shift", 0, EmptyStr)>>)
            /\ UNCHANGED <<stages, input_data, mpc, iresult>>
       ELSE \E r \in {load_demographics_data(in_file, in_file.readable)} :
            /\ iresult' = [exc |-> r.exc, cause |-> r.cause, val |-> r.val]
            /\ IF r.exc # "none"
               THEN /\ RunExit(1, <<LogEntry("info", "starting", 0, EmptyStr)>>
                                  \o r.log \o RunFailedLog("masking_failed"))
                    /\ stages' = <<"load">>
                    /\ UNCHANGED <<input_data, mpc>>
               ELSE /\ log' = log \o <<LogEntry("info", "starting", 0, EmptyStr)>>
                              \o r.log
                    /\ input_data' = r.val
                    /\ mpc' = "call"
                    /\ rpc' = "mask"
                    /\ stages' = <<"load", "mask">>
                    /\ UNCHANGED exit_code
    /\ UNCHANGED <<calls, date_shift_days, i, masked_data, errors, history,
                   genVars, dateVars, fieldVars, rop, in_file, elapsed, iop,
                   ipc, dir_exists, file, permitted, idata>>

\* What a save does to the file system, and the end of the run after it.
RunSaved(r, after) ==
    /\ iresult' = [exc |-> r.exc, cause |-> r.cause, val |-> r.val]
    /\ dir_exists' = r.dir_exists
    /\ file' = r.file
    /\ stages' = Append(stages, "save")
    /\ RunExit(after.exit_code, after.log)
    /\ UNCHANGED <<calls, maskVars, genVars, dateVars, fieldVars, rop, in_file,
                   elapsed, iop, ipc, permitted, idata>>

\* DemographicsMasking.main after the batch returned: the masked records
\* are saved and the times logged.
MaskRunSave ==
    /\ rop = "mask" /\ rpc = "mask" /\ mpc = "done"
    /\ \E r \in {save_masked_data(masked_data, dir_exists, file, permitted)} :
         RunSaved(r, AfterSave(r, "masking_failed", Len(masked_data) > 0,
                               elapsed))

\* DemographicsGenerator: __main__ checks the count, main logs its start
\* and calls generate_batch.
GenRunStart ==
    /\ rop = "generate" /\ rpc = "start"
    /\ IF records.v <= 0
       THEN /\ RunExit(1, <<LogEntry("error", "bad_record_count", 0, EmptyStr)>>)
            /\ UNCHANGED <<stages, gpc>>
       ELSE /\ log' = Append(log, LogEntry("info", "starting", 0, EmptyStr))
            /\ gpc' = "call"
            /\ rpc' = "generate"
            /\ stages' = <<"generate">>
            /\ UNCHANGED exit_code
    /\ UNCHANGED <<calls, maskVars, records, gi, batch, gresult, dateVars,
                   fieldVars, ioVars, rop, in_file, elapsed>>

\* generate_batch raised: main logs and raises, the process exits.
GenRunFailed ==
    /\ rop = "generate" /\ rpc = "generate" /\ gpc = "raised"
    /\ RunExit(1, RunFailedLog("generation_failed"))
    /\ UNCHANGED <<calls, maskVars, genVars, dateVars, fieldVars, ioVars, rop,
                   stages, in_file, elapsed>>

\* DemographicsGenerator.main after the batch returned.
GenRunSave ==
    /\ rop = "generate" /\ rpc = "generate" /\ gpc = "done"
    /\ \E r \in {save_to_csv(batch, dir_exists, file, permitted)} :
         RunSaved(r, AfterSave(r, "generation_failed", TRUE, elapsed))

\* The file a generation run saved is loaded again.
ReadBack ==
    /\ rop = "generate" /\ rpc = "exit"
    /\ stages = <<"generate", "save">> /\ iresult.exc = "none"
    /\ \E r \in {load_demographics_data(file, permitted)} :
         /\ iresult' = [exc |-> r.exc, cause |-> r.cause, val |-> r.val]
         /\ log' = log \o r.log
    /\ rpc' = "read_back"
    /\ UNCHANGED <<calls, maskVars, genVars, dateVars, fieldVars, rop, stages,
                   exit_code, in_file, elapsed, iop, ipc, dir_exists, file,
                   permitted, idata>>

RunNext ==
    \/ MaskRunLoad \/ MaskBatchBegin \/ MaskBatchRecord \/ MaskBatchReturn
    \/ MaskRunSave
    \/ GenRunStart \/ GenBatchBegin \/ GenBatchRecord \/ GenBatchReturn
    \/ GenRunFailed \/ GenRunSave \/ ReadBack

SpecRun == RunInit /\ [][RunNext]_vars

(***************************************************************************)
(* Properties of mask_demographics_batch and mask_demographic_record,      *)
(* checked under Spec.                                                     *)
(***************************************************************************)
Succeeded(e) == e.exc = "none"

ValsOf(h) == [k \in 1..Len(h) |-> h[k].val]

\* The number of the provider call that produced a value.
CallNo(token) == ParseInt(Tail(token))

\* A processed record that hit no provider fault and no failing gender.
Undisturbed(e) ==
    /\ e.F = {}
    /\ ~("gender" \in DOMAIN e.record /\ e.record["gender"] = None)

\* C1: over N records of which M make mask_demographic_record raise, the
\* batch never raises, processes all N, returns N - M records and counts M
\* errors; at every loop step appended + errors = processed.
Thm_C1_BatchCounts ==
    /\ mpc \in {"call", "loop", "done"}
    /\ i = Len(history)
    /\ i <= Len(input_data)
    /\ Len(masked_data) + errors = i
    /\ errors = Cardinality({k \in 1..Len(history) : history[k].exc # "none"})
    /\ \A k \in 1..Len(history) :
         ("gender" \in DOMAIN input_data[k] /\ input_data[k]["gender"] = None)
             => history[k].exc # "none"
    /\ mpc = "done" =>
         /\ i = Len(input_data)
         /\ Len(masked_data) = Len(input_data) - errors

Wit_C1_SomeSkipped ==
    mpc = "done" /\ Len(input_data) = 2 /\ errors = 1 /\ Len(masked_data) = 1

\* C2: the output is the masked results of exactly the records that masked
\* successfully, in input order; a skipped record leaves no element.
Thm_C2_OrderPreserved ==
    /\ \A k \in 1..Len(history) : history[k].record = input_data[k]
    /\ masked_data = ValsOf(SelectSeq(history, Succeeded))
    /\ \A k \in 1..Len(masked_data) : masked_data[k] # NoMasked
    /\ \A k \in 1..(Len(masked_data) - 1) :
         CallNo(masked_data[k].ssn) < CallNo(masked_data[k + 1].ssn)

Wit_C2_SkipThenKeep ==
    /\ mpc = "done"
    /\ Len(history) = 2
    /\ history[1].exc # "none"
    /\ history[2].exc = "none"
    /\ masked_data = <<history[2].val>>

\* C3 as stated: every completed run reports the produced count and the
\* skipped count, also when nothing was skipped.
Orig_C3_AlwaysReportsSkipped ==
    mpc = "done" =>
        /\ \E k \in 1..Len(log) :
             log[k].event = "masked_total" /\ log[k].count = Len(masked_data)
        /\ \E k \in 1..Len(log) :
             log[k].event = "skipped_total" /\ log[k].count = errors

\* C3 amended: after the last record the run reports the produced count;
\* it reports the skipped count M exactly when M > 0.
Thm_C3_FinalReport ==
    /\ mpc # "done" =>
         \A k \in 1..Len(log) :
             log[k].event \notin {"masked_total", "skipped_total"}
    /\ mpc = "done" =>
         LET reports == {k \in 1..Len(log) :
                            log[k].event \in {"masked_total", "skipped_total"}}
             others  == (1..Len(log)) \ reports
         IN  /\ \A k \in reports : \A j \in others : j < k
             /\ \E k \in reports :
                  /\ log[k].event = "masked_total"
                  /\ log[k].count = Len(masked_data)
                  /\ log[k].count = Len(input_data) - errors
             /\ errors > 0 =>
                  /\ Cardinality(reports) = 2
                  /\ log[Len(log)].event = "skipped_total"
                  /\ log[Len(log)].count = errors
             /\ errors = 0 =>
                  \A k \in reports : log[k].event # "skipped_total"

Wit_C3_NothingSkipped ==
    /\ mpc = "done"
    /\ Len(input_data) = 2
    /\ errors = 0
    /\ log[Len(log)].event = "masked_total"
    /\ log[Len(log)].count = 2

\* C4 as stated: a non-empty birthDate that cannot be parsed never makes
\* the record raise: a warning is logged and the raw value is kept; an
\* absent or empty birthDate gives ''.  So no record is dropped for its
\* birthDate.
Orig_C4_BadDateKept ==
    \A k \in 1..Len(history) :
        LET e == history[k] IN
        Undisturbed(e) =>
            /\ (HasBirthDate(e.record) /\ Parse(e.record["birthDate"]).exc # "none")
                   => /\ e.exc = "none"
                      /\ e.val.birthDate = e.record["birthDate"]
            /\ ~HasBirthDate(e.record)
                   => /\ e.exc = "none"
                      /\ e.val.birthDate = EmptyStr

(***************************************************************************)
(* The calendar, one day at a time; years run on past 9999.                *)
(***************************************************************************)
NextDay(dt) ==
    IF dt.day < DaysInMonth(dt.year, dt.month)
    THEN [dt EXCEPT !.day = dt.day + 1]
    ELSE IF dt.month < 12
         THEN [year |-> dt.year, month |-> dt.month + 1, day |-> 1]
    ELSE [year |-> dt.year + 1, month |-> 1, day |-> 1]

PrevDay(dt) ==
    IF dt.day > 1 THEN [dt EXCEPT !.day = dt.day - 1]
    ELSE IF dt.month > 1
         THEN [year |-> dt.year, month |-> dt.month - 1,
               day |-> DaysInMonth(dt.year, dt.month - 1)]
    ELSE [year |-> dt.year - 1, month |-> 12, day |-> 31]

RECURSIVE StepDays(_, _)
StepDays(dt, d) ==
    IF d = 0 THEN dt
    ELSE IF d > 0 THEN StepDays(NextDay(dt), d - 1)
    ELSE StepDays(PrevDay(dt), d + 1)

\* MM-DD-YYYY
RenderMDY(dt) ==
    <<DigitChars[(dt.month \div 10) + 1], DigitChars[(dt.month % 10) + 1], "-",
      DigitChars[(dt.day \div 10) + 1], DigitChars[(dt.day % 10) + 1], "-",
      DigitChars[(dt.year \div 1000) + 1], DigitChars[((dt.year \div 100) % 10) + 1],
      DigitChars[((dt.year \div 10) % 10) + 1], DigitChars[(dt.year % 10) + 1]>>

\* A processed record whose birthDate parses.
ParsesBirthDate(e) ==
    HasBirthDate(e.record) /\ Parse(e.record["birthDate"]).exc = "none"

Orig_C6_GenderVerbatim ==
    \A k \in 1..Len(history) :
        LET e == history[k] IN
        "gender" \in DOMAIN e.record =>
            /\ e.exc # "AttributeError"
            /\ e.exc = "none" => e.val.gender = e.record["gender"]

\* out is text with its leading and trailing whitespace removed.
IsTrimOf(out, text) ==
    /\ out = <<>> \/ (out[1] \notin Whitespace /\ out[Len(out)] \notin Whitespace)
    /\ \E lo \in 0..Len(text) :
         /\ lo + Len(out) <= Len(text)
         /\ out = SubSeq(text, lo + 1, lo + Len(out))
         /\ \A j \in 1..Len(text) :
              (j <= lo \/ j > lo + Len(out)) => text[j] \in Whitespace

\* C6 amended: a gender that is a string is copied with its leading and
\* trailing whitespace removed, and is never synthesized; an absent gender
\* gives ''; a gender of None (a cell missing from a short row) makes the
\* record raise: AttributeError, unless the SSN call or the birthDate
\* already raised.
Thm_C6_GenderTrimmed ==
    \A k \in 1..Len(history) :
        LET e == history[k] IN
        /\ ("gender" \in DOMAIN e.record /\ e.record["gender"] # None) =>
              /\ e.exc # "AttributeError"
              /\ e.exc = "none" => IsTrimOf(e.val.gender, e.record["gender"])
        /\ ("gender" \in DOMAIN e.record /\ e.record["gender"] = None) =>
              /\ e.exc # "none"
              /\ (e.F = {} /\ MaskBirthDate(e.record, date_shift_days).exc = "none")
                    => e.exc = "AttributeError"
        /\ "gender" \notin DOMAIN e.record =>
              /\ e.exc # "AttributeError"
              /\ e.exc = "none" => e.val.gender = EmptyStr

Wit_C6_PaddedGender ==
    \E k \in 1..Len(history) :
        /\ "gender" \in DOMAIN history[k].record
        /\ history[k].record["gender"] = GenderPadded
        /\ history[k].exc = "none"
        /\ history[k].val.gender = <<"F", "E", "M", "A", "L", "E">>

\* Two input records with the same birthDate and the same gender.
\* The record masked last.  history only grows, by one entry for each
\* record, so every entry of it is the latest in the state after its
\* record was masked: what holds of the latest in every state holds of all.
Latest == IF history = <<>> THEN {} ELSE {Len(history)}

Agree(r1, r2) ==
    /\ \A f \in {"birthDate", "gender"} : (f \in DOMAIN r1) = (f \in DOMAIN r2)
    /\ \A f \in {"birthDate", "gender"} \cap DOMAIN r1 : r1[f] = r2[f]

Replaced ==
    {"ssn", "firstName", "lastName", "address", "city", "state", "postalCode",
     "email", "phone"}

\* C7: masking reads only birthDate and gender: records agreeing on both,
\* masked with the same shift against the same provider results, give the
\* same outcome; the output ssn is the provider's fresh value and no
\* replaced field carries the input's value.
Thm_C7_ReadsOnlyDateAndGender ==
    \A k \in Latest :
        LET e == history[k] IN
        /\ \A r2 \in InputRecords :
             Agree(e.record, r2) =>
                \A m2 \in {mask_demographic_record(r2, date_shift_days, e.n,
                                                    e.F)} :
                    m2.exc = e.exc /\ m2.val = e.val
        /\ e.exc = "none" =>
             /\ e.val.ssn = <<"ssn">> \o Decimal(e.n + 1)
             /\ \A f \in Replaced \cap DOMAIN e.record : e.val[f] # e.record[f]

Wit_C7_SameDateOtherPerson ==
    \E k \in 1..Len(history) :
        /\ history[k].exc = "none"
        /\ \E r2 \in InputRecords :
             /\ Agree(history[k].record, r2)
             /\ \A f \in Replaced : r2[f] # history[k].record[f]

(***************************************************************************)
(* Properties of generate_batch, checked under SpecGen.                    *)
(***************************************************************************)
GeneratedSchema ==
    {"ssn", "creditCard", "firstName", "lastName", "address", "city", "state",
     "postalCode", "email", "phone"}

PositiveInt(arg) == arg.type = "int" /\ arg.v >= 1

\* C8: a count that is not a positive integer fails with ValueError before
\* any record is generated and before any event is logged; no records.
Thm_C8_RejectsBadCount ==
    ~PositiveInt(records) =>
        /\ gpc \in {"call", "raised"}
        /\ gpc = "raised" => gresult = Raised("ValueError", <<>>)
        /\ calls = 0
        /\ log = <<>>
        /\ batch = <<>>
        /\ gi = 0

Wit_C8_ZeroRejected ==
    /\ gpc = "raised"
    /\ records = [type |-> "int", v |-> 0]
    /\ gresult.exc = "ValueError"

\* C9: a positive count returns exactly count records in generation order,
\* each with exactly the ten Generated keys; when one record fails the
\* call raises and returns no partial batch.
Thm_C9_ExactlyCount ==
    PositiveInt(records) =>
        /\ gpc \in {"call", "loop", "done", "raised"}
        /\ Len(batch) = gi /\ gi <= records.v
        /\ \A k \in 1..Len(batch) :
             /\ DOMAIN batch[k] = GeneratedSchema
             /\ CallNo(batch[k].ssn) < CallNo(batch[k].creditCard)
             /\ k < Len(batch) =>
                  CallNo(batch[k].creditCard) < CallNo(batch[k + 1].ssn)
        /\ gpc = "done" =>
             /\ gresult = Returned(batch)
             /\ Len(gresult.val) = records.v
             /\ \A k \in 1..Len(log) : log[k].event # "error_generating"
        /\ gpc = "raised" =>
             /\ gresult.exc = "ProviderError"
             /\ gresult.val = <<>>
             /\ log[Len(log)].event = "error_generating"
        /\ (\E k \in 1..Len(log) : log[k].event = "error_generating")
             => gpc = "raised"

Wit_C9_ThreeRecords ==
    /\ gpc = "done"
    /\ records.v = 3
    /\ Len(gresult.val) = 3
    /\ gresult.val[1] # gresult.val[2]

(***************************************************************************)
(* Properties of add_days, checked under SpecDate.                         *)
(***************************************************************************)
\* The date a valid input stands for.
InputDate == IF startdate.type = "str" THEN Parse(startdate.text).val
             ELSE startdate.date

ValidInput ==
    \/ startdate.type = "datetime"
    \/ startdate.type = "str" /\ Parse(startdate.text).exc = "none"

\* C10 as stated: for every valid date D and every integer d, add_days
\* returns the date whose ordinal is ordinal(D) + d; d = 0 returns D.
Orig_C10_AnyDayCount ==
    (dpc = "done" /\ ValidInput) =>
        /\ dresult.exc = "none"
        /\ ToOrdinal(dresult.val) = ToOrdinal(InputDate) + days
        /\ days = 0 => dresult.val = InputDate

\* C10 amended: when ordinal(D) + d is the ordinal of a date from
\* 0001-01-01 to 9999-12-31 (1 to 3652059) add_days returns that date, and
\* d = 0 returns D; otherwise it raises OverflowError.
Thm_C10_OrdinalInRange ==
    (dpc = "done" /\ ValidInput) =>
        LET target == ToOrdinal(InputDate) + days IN
        IF target >= 1 /\ target <= 3652059
        THEN /\ dresult.exc = "none"
             /\ ValidDate(dresult.val.year, dresult.val.month, dresult.val.day)
             /\ ToOrdinal(dresult.val) = target
             /\ dresult.val = StepDays(InputDate, days)
             /\ days = 0 => dresult.val = InputDate
        ELSE dresult.exc = "OverflowError"

Wit_C10_BackOverNewYear ==
    /\ dpc = "done"
    /\ startdate.type = "str"
    /\ days = -1
    /\ InputDate = [year |-> 2023, month |-> 1, day |-> 1]
    /\ dresult = Returned([year |-> 2022, month |-> 12, day |-> 31])

\* text occurs in msg.
Contains(msg, text) ==
    \E lo \in 0..Len(msg) :
        /\ lo + Len(text) <= Len(msg)
        /\ SubSeq(msg, lo + 1, lo + Len(text)) = text

\* C11 as stated: a string that cannot be parsed fails with ValueError
\* whose message contains the string; an input that is neither a datetime
\* nor a string fails with TypeError; a datetime and a parseable string are
\* accepted: neither of the two errors is raised for them.
Orig_C11_Classifies ==
    dpc = "done" =>
        /\ (startdate.type = "str" /\ Parse(startdate.text).exc # "none") =>
              /\ dresult.exc = "ValueError"
              /\ Contains(dmsg, startdate.text)
        /\ startdate.type = "other" => dresult.exc = "TypeError"
        /\ ValidInput => dresult.exc \notin {"ValueError", "TypeError"}

(***************************************************************************)
(* Properties of the field generators, checked under SpecField.            *)
(***************************************************************************)
\* What the k-th call to the provider returns for a method.
Token(method, k) == <<method>> \o Decimal(k)

\* The failing provider calls the generator made.
Met == {k \in fF : fprior < k /\ k <= fresult.n}

Least(S) == CHOOSE k \in S : \A j \in S : k <= j
Greatest(S) == CHOOSE k \in S : \A j \in S : j <= k

AddressSchema == {"address", "city", "state", "postalCode"}

\* C12: for every formatted address (two lines or more with a comma in
\* line 2, without one, fewer than two lines) generateAddress returns a
\* mapping of exactly the keys address, city, state, postalCode, each value
\* a non-empty string.
Thm_C12_FourNonEmpty ==
    (fop = "address" /\ fpc = "done") =>
        /\ Met = {} => fresult.exc = "none"
        /\ fresult.exc = "none" =>
             /\ DOMAIN fresult.val = AddressSchema
             /\ \A f \in AddressSchema :
                  /\ fresult.val[f] # EmptyStr
                  /\ fresult.val[f] # None
                  /\ \A p \in 1..Len(fresult.val[f]) :
                       fresult.val[f][p] \in STRING

Wit_C12_MissingTokens ==
    /\ fop = "address" /\ fpc = "done" /\ fF = {}
    /\ farg = <<"5", " ", "L", "\n", "M", ",">>
    /\ fresult.val.address = <<"5", " ", "L">>
    /\ fresult.val.city = <<"M">>
    /\ fresult.val.state = Token("state_abbr", fresult.n - 1)
    /\ fresult.val.postalCode = Token("postcode", fresult.n)

\* The four fields of the fallback whose calls follow call k.
FallbackAfter(k) ==
    [address    |-> Token("street_address", k + 1),
     city       |-> Token("city", k + 2),
     state      |-> Token("state_abbr", k + 3),
     postalCode |-> Token("postcode", k + 4)]

IsPhone(text) ==
    /\ Len(text) = 12
    /\ \A p \in 1..12 :
         IF p \in {4, 8} THEN text[p] = "-" ELSE IsDigit(text[p])

\* The fallback contact whose calls follow call k.
IsFallbackContact(val, k) ==
    /\ val.email = Token("user_name", k + 1) \o <<"@">> \o
                   Token("domain_name", k + 2)
    /\ \E p \in 1..Len(val.email) : val.email[p] = "@"
    /\ IsPhone(val.phone)

HexUpper ==
    <<"0", "1", "2", "3", "4", "5", "6", "7", "8", "9",
      "A", "B", "C", "D", "E", "F">>

\* The position in the 36-character uuid of the j-th hexadecimal digit.
UuidPos(j) ==
    j + (IF j > 8 THEN 1 ELSE 0) + (IF j > 12 THEN 1 ELSE 0)
      + (IF j > 16 THEN 1 ELSE 0) + (IF j > 20 THEN 1 ELSE 0)

\* C17: for every identifier the provider produces generate_uuid returns
\* 32 characters of 0-9 and A-F: the digits of the uuid in order, hyphens
\* dropped, letters in upper case.
Thm_C17_Uuid32Hex ==
    (fop = "uuid" /\ fpc = "done" /\ fresult.exc = "none") =>
        /\ Len(fresult.val) = 32
        /\ \A j \in 1..Len(fresult.val) :
             /\ \E h \in 1..16 : fresult.val[j] = HexUpper[h]
             /\ j <= 32 =>
                  \E h \in 1..16 :
                      /\ Uuid4Of(fresult.n)[UuidPos(j)] = HexChars[h]
                      /\ fresult.val[j] = HexUpper[h]

Wit_C17_HasLetters ==
    /\ fop = "uuid" /\ fpc = "done" /\ fresult.exc = "none"
    /\ \E j \in 1..Len(fresult.val) :
         fresult.val[j] \in {"A", "B", "C", "D", "E", "F"}

(***************************************************************************)
(* The name a masked record gets, checked under Spec.                      *)
(***************************************************************************)
\* text is word up to the case of its letters.
SameLetters(text, word) ==
    /\ Len(text) = Len(word)
    /\ \A p \in 1..Len(word) :
         \E j \in 1..Len(LowerChars) :
             /\ word[p] = LowerChars[j]
             /\ text[p] \in {LowerChars[j], UpperChars[j]}

\* The first-name generator a hint stands for; "<None>" is the None hint.
SourceFor(hint) ==
    IF hint = None THEN "first_name"
    ELSE IF SameLetters(hint, <<"m", "a", "l", "e">>) THEN "first_name_male"
    ELSE IF SameLetters(hint, <<"f", "e", "m", "a", "l", "e">>)
         THEN "first_name_female"
    ELSE "first_name"

\* The parts of text that are text trimmed.
Trims(text) ==
    {SubSeq(text, a, b) : a \in 1..(Len(text) + 1), b \in 0..Len(text)}

\* hint is what mask_demographic_record passes for the record.
IsHintOf(hint, record) ==
    IF "gender" \notin DOMAIN record THEN hint = None
    ELSE \E t \in Trims(record["gender"]) :
            /\ IsTrimOf(t, record["gender"])
            /\ hint = IF t = <<>> THEN None ELSE t

\* C15: the hint alone selects the first-name generator: male or female in
\* any letter case selects the gender-conditioned one, None or any other
\* string the unconditioned one; the last name always comes from the same
\* generator; a masked record's hint is its trimmed gender, None when that
\* is empty.
Thm_C15_SourceByHint ==
    \A k \in Latest :
        LET e == history[k] IN
        (e.exc = "none" /\ e.F = {}) =>
            /\ \E hint \in Trims(e.val.gender) \cup {None} :
                 /\ IsHintOf(hint, e.record)
                 /\ e.val.firstName = Token(SourceFor(hint), e.n + 2)
            /\ e.val.lastName = Token("last_name", e.n + 3)

Wit_C15_PaddedUpperFemale ==
    \E k \in 1..Len(history) :
        /\ history[k].exc = "none" /\ history[k].F = {}
        /\ "gender" \in DOMAIN history[k].record
        /\ history[k].record["gender"] = GenderPadded
        /\ history[k].val.firstName =
              Token("first_name_female", history[k].n + 2)
        /\ history[k].val.lastName = Token("last_name", history[k].n + 3)

(***************************************************************************)
(* Properties of load_demographics_data and the save functions, checked    *)
(* under SpecIo.                                                           *)
(***************************************************************************)
\* Every cell of the line is empty.
Blank(cells) == \A j \in 1..Len(cells) : Len(cells[j]) = 0

\* The table has no header row.
NoHeader(rows) == Len(rows) = 0 \/ Len(rows[1]) = 0

\* The lines after the header that are rows: the lines with cells.
DataLines(rows) == {k \in 2..Len(rows) : Len(rows[k]) > 0}

\* C18 as stated: a missing path fails with FileNotFoundError; an absent
\* header row, or no non-empty data row, fails with ValueError, and a file
\* that exists but cannot be read with IOError, so that the kind of the
\* error tells the two apart.
Orig_C18_ErrorKinds ==
    (iop = "load" /\ ipc = "done") =>
        /\ ~file.exists => iresult.exc = "FileNotFoundError"
        /\ (file.exists /\ ~permitted) => iresult.exc = "IOError"
        /\ (file.exists /\ permitted /\ NoHeader(file.rows)) =>
              iresult.exc = "ValueError"
        /\ (file.exists /\ permitted /\ ~NoHeader(file.rows)
              /\ \A k \in DataLines(file.rows) : Blank(file.rows[k])) =>
              iresult.exc = "ValueError"

\* The k-th of the lines in S, in file order.
RECURSIVE NthOf(_, _)
NthOf(S, m) ==
    LET first == CHOOSE k \in S : \A j \in S : k <= j
    IN  IF m = 1 THEN first ELSE NthOf(S \ {first}, m - 1)

\* The warnings about skipped rows in the log.
SkipWarnings == SelectSeq(log, LAMBDA e : e.event = "skipping_row")

\* C19 as stated: the rows come back in file order as mappings from header
\* name to cell; a row is skipped, with a warning, exactly when every cell
\* of it is blank; every returned row has a non-blank cell.
Orig_C19_SkipsBlankRows ==
    (iop = "load" /\ ipc = "done" /\ iresult.exc = "none") =>
        LET kept == {k \in DataLines(file.rows) : ~Blank(file.rows[k])}
            skipped == {k \in DataLines(file.rows) : Blank(file.rows[k])}
        IN  /\ Len(iresult.val) = Cardinality(kept)
            /\ Len(SkipWarnings) = Cardinality(skipped)
            /\ \A m \in 1..Len(iresult.val) :
                 /\ m <= Cardinality(kept) =>
                      \A j \in 1..Len(file.rows[1]) :
                          j <= Len(file.rows[NthOf(kept, m)]) =>
                              iresult.val[m][file.rows[1][j]] =
                                  file.rows[NthOf(kept, m)][j]
                 /\ \E c \in DOMAIN iresult.val[m] :
                      /\ c # RestKey
                      /\ iresult.val[m][c] # None
                      /\ Len(iresult.val[m][c]) > 0

\* C20: either save function called with no records raises ValueError
\* before any I/O: the directory, the file and the log stay as they were.
Thm_C20_EmptyBeforeIo ==
    [][(iop \in {"save_to_csv", "save_masked_data"} /\ ipc = "call"
          /\ Len(idata) = 0) =>
       /\ iresult'.exc = "ValueError"
       /\ iresult'.cause = "none"
       /\ dir_exists' = dir_exists
       /\ file' = file
       /\ log' = log]_vars

Wit_C20_NothingTouched ==
    /\ iop \in {"save_to_csv", "save_masked_data"} /\ ipc = "done"
    /\ Len(idata) = 0
    /\ iresult.exc = "ValueError"
    /\ permitted
    /\ file.exists /\ Len(file.rows) = Len(OldTable)

(***************************************************************************)
(* The decomposition of a formatted address, checked under SpecField.      *)
(***************************************************************************)
\* The positions of the character c in text.
PositionsOf(text, c) == {p \in 1..Len(text) : text[p] = c}

\* The formatted address has a second line.
TwoLines(text) == \E p \in PositionsOf(text, "\n") : p < Len(text)

\* The first line, and the second: the text between the first line break
\* and the next one, or the end.
Line1(text) == SubSeq(text, 1, Least(PositionsOf(text, "\n")) - 1)

Line2(text) ==
    LET p1 == Least(PositionsOf(text, "\n"))
        later == {p \in PositionsOf(text, "\n") : p > p1}
    IN  SubSeq(text, p1 + 1, IF later = {} THEN Len(text) ELSE Least(later) - 1)

\* Where the words of text begin: after white space or at the start.
WordStarts(text) ==
    {a \in 1..Len(text) :
        text[a] \notin Whitespace /\ (a = 1 \/ text[a - 1] \in Whitespace)}

\* The k-th word of text.
Word(text, k) ==
    LET a == NthOf(WordStarts(text), k)
        b == Greatest({e \in a..Len(text) :
                          \A j \in a..e : text[j] \notin Whitespace})
    IN  SubSeq(text, a, b)

\* The field is the k-th word of text or, when text has fewer words, a
\* value of its own from the provider.
WordOrOwn(field, text, k, method) ==
    IF k <= Cardinality(WordStarts(text))
    THEN fresult.val[field] = Word(text, k)
    ELSE \E j \in (fprior + 2)..fresult.n :
            fresult.val[field] = Token(method, j)

\* How many of the k words wanted text lacks.
Lacking(text, k) ==
    IF Cardinality(WordStarts(text)) >= k THEN 0
    ELSE k - Cardinality(WordStarts(text))

\* C23: with two lines or more, address is line 1; a comma in line 2 has
\* the city before it and after it the words state and postalCode; without
\* a comma the words of line 2 are city, state and postalCode; a word that
\* is missing is a provider value for that field alone; further lines are
\* ignored.
Thm_C23_Decomposition ==
    (fop = "address" /\ fpc = "done" /\ Met = {} /\ TwoLines(farg)) =>
        /\ fresult.exc = "none"
        /\ fresult.val.address = Line1(farg)
        /\ IF PositionsOf(Line2(farg), ",") # {}
           THEN LET c == Least(PositionsOf(Line2(farg), ","))
                    after == SubSeq(Line2(farg), c + 1, Len(Line2(farg)))
                IN  /\ fresult.val.city = SubSeq(Line2(farg), 1, c - 1)
                    /\ WordOrOwn("state", after, 1, "state_abbr")
                    /\ WordOrOwn("postalCode", after, 2, "postcode")
                    /\ fresult.n = fprior + 1 + Lacking(after, 2)
           ELSE /\ WordOrOwn("city", Line2(farg), 1, "city")
                /\ WordOrOwn("state", Line2(farg), 2, "state_abbr")
                /\ WordOrOwn("postalCode", Line2(farg), 3, "postcode")
                /\ fresult.n = fprior + 1 + Lacking(Line2(farg), 3)

Wit_C23_ThirdLineIgnored ==
    /\ fop = "address" /\ fpc = "done" /\ fF = {}
    /\ farg = <<"9", " ", "T", "\n", "U", ",", " ", "V", " ", "7", "\n", "W">>
    /\ fresult.val = [address |-> <<"9", " ", "T">>, city |-> <<"U">>,
                      state |-> <<"V">>, postalCode |-> <<"7">>]

(***************************************************************************)
(* What masking leaves alone, checked under Spec.                          *)
(***************************************************************************)
\* C24: masking has no effect on its input: whether a record is masked or
\* raises, the input list keeps its records, their keys and values, its
\* length and its order; an output record is built anew with the Masked
\* columns, whatever keys the input record has; a record once appended to
\* the output stays as it is while later records are processed.
Thm_C24_InputAndOutputKept ==
    [][/\ input_data' = input_data
       /\ mpc = "loop" =>
            /\ Len(masked_data') >= Len(masked_data)
            /\ \A k \in 1..Len(masked_data) : masked_data'[k] = masked_data[k]
       /\ \A k \in 1..Len(masked_data') :
            DOMAIN masked_data'[k] = DOMAIN NoMasked]_vars

Wit_C24_SecondAfterFirst ==
    /\ mpc = "done"
    /\ i = 2 /\ Len(input_data) = 2
    /\ Len(masked_data) = 2
    /\ "gender" \notin DOMAIN input_data[1]
    /\ history[1].val = masked_data[1]
    /\ masked_data[1] # masked_data[2]

(***************************************************************************)
(* The errors of the birthDate block, checked under Spec.                  *)
(***************************************************************************)
\* The error kinds the birthDate block recovers from.
Recovered == {"ValueError", "TypeError"}

\* What parsing the record's birthDate and shifting it raises: the error
\* of the parser, an overflow when the shifted date lies after 9999-12-31.
BirthDateError(e) ==
    LET parsed == Parse(e.record["birthDate"])
    IN  IF parsed.exc # "none" THEN parsed.exc
        ELSE IF StepDays(parsed.val, date_shift_days).year > MAXYEAR
             THEN "OverflowError"
        ELSE "none"

\* C25: of the errors of parsing and shifting a birthDate only ValueError
\* and TypeError are recovered, the raw value being kept; any other error,
\* such as the overflow of a parseable date shifted past the last date,
\* leaves mask_demographic_record, and the batch skips the record and
\* counts it.
Thm_C25_OtherErrorsPropagate ==
    /\ \A k \in Latest :
         LET e == history[k] IN
         (HasBirthDate(e.record) /\ (e.n + 1) \notin e.F) =>
          \A err \in {BirthDateError(e)} :
            /\ err \in Recovered =>
                 /\ e.exc \notin Recovered
                 /\ e.exc = "none" => e.val.birthDate = e.record["birthDate"]
            /\ err \notin Recovered \cup {"none"} =>
                 /\ e.exc = err
                 /\ e.val = NoMasked
                 /\ \E l \in 1..Len(log) :
                      log[l].event = "failed_record" /\ log[l].count = k
    /\ errors = Cardinality({k \in 1..Len(history) : history[k].exc # "none"})
    /\ Len(masked_data) =
          Cardinality({k \in 1..Len(history) : history[k].exc = "none"})

Wit_C25_OverflowSkipped ==
    /\ mpc = "done"
    /\ Len(input_data) = 2
    /\ date_shift_days = 1
    /\ HasBirthDate(history[1].record)
    /\ history[1].record["birthDate"] = DateLast
    /\ history[1].F = {}
    /\ history[1].exc = "OverflowError"
    /\ errors = 1
    /\ Len(masked_data) = 1

(***************************************************************************)
(* What a failing save leaves behind, checked under SpecIo.                *)
(***************************************************************************)
\* The columns of the save function called.
ColumnsSaved ==
    IF iop = "save_to_csv"
    THEN <<"ssn", "creditCard", "firstName", "lastName", "address", "city",
           "state", "postalCode", "email", "phone">>
    ELSE <<"ssn", "birthDate", "gender", "firstName", "lastName", "address",
           "city", "state", "postalCode", "email", "phone">>

\* The records with a key that is no column.
OffSchema ==
    {k \in 1..Len(idata) :
        \E key \in DOMAIN idata[k] :
            \A j \in 1..Len(ColumnsSaved) : ColumnsSaved[j] # key}

\* C26: a save is not all-or-nothing: where the file system lets it write,
\* a record with a key outside the columns makes the call fail with
\* IOError only after the directory was made, the file opened and emptied
\* and the header and every record before it written; a record lacking a
\* column is written with an empty cell and is no error.
Thm_C26_PartialFile ==
    (iop \in {"save_to_csv", "save_masked_data"} /\ ipc = "done"
        /\ permitted /\ Len(idata) > 0) =>
        /\ dir_exists
        /\ file.exists
        /\ file.rows[1] = ColumnsSaved
        /\ IF OffSchema = {}
           THEN iresult.exc = "none" /\ Len(file.rows) = 1 + Len(idata)
           ELSE /\ iresult.exc = "IOError"
                /\ iresult.cause = "ValueError"
                /\ Len(file.rows) = Least(OffSchema)
        /\ \A k \in 1..(Len(file.rows) - 1) :
             /\ Len(file.rows[k + 1]) = Len(ColumnsSaved)
             /\ \A j \in 1..Len(ColumnsSaved) :
                  file.rows[k + 1][j] =
                      IF ColumnsSaved[j] \notin DOMAIN idata[k] THEN <<>>
                      ELSE IF idata[k][ColumnsSaved[j]] = None THEN <<>>
                      ELSE idata[k][ColumnsSaved[j]]

Wit_C26_HeaderAndOneRow ==
    /\ iop = "save_to_csv" /\ ipc = "done" /\ permitted
    /\ Len(idata) = 2
    /\ DOMAIN idata[1] = {"ssn"}
    /\ "uuid" \in DOMAIN idata[2]
    /\ iresult.exc = "IOError"
    /\ Len(file.rows) = 2
    /\ file.rows[2][1] = idata[1]["ssn"]
    /\ file.rows[2][2] = <<>>


(***************************************************************************)
(* The round trip of a generation run.                                     *)
(***************************************************************************)
Columns(fieldnames) == {fieldnames[j] : j \in 1..Len(fieldnames)}

\* C21: loading the file that a generation run of n >= 1 records saved
\* yields n rows in the saved order, each with exactly the columns of the
\* generated schema and in every cell the value saved; no row is blank and
\* none is dropped.
Thm_C21_RoundTrip ==
    rpc = "read_back" =>
        /\ iresult.exc = "none"
        /\ records.v >= 1
        /\ Len(batch) = records.v
        /\ Len(iresult.val) = records.v
        /\ \A k \in 1..Len(batch) :
              /\ DOMAIN iresult.val[k] = Columns(GeneratedFieldnames)
              /\ DOMAIN batch[k] = Columns(GeneratedFieldnames)
              /\ \A c \in Columns(GeneratedFieldnames) :
                    iresult.val[k][c] = batch[k][c]
              /\ \E c \in Columns(GeneratedFieldnames) :
                    Truthy(iresult.val[k][c])
        /\ \A e \in 1..Len(log) : log[e].event # "skipping_row"

Wit_C21_TwoRowsReadBack ==
    /\ rpc = "read_back"
    /\ Len(iresult.val) = 2
    /\ iresult.val[1] # iresult.val[2]
    /\ iresult.val[1]["phone"] = batch[1]["phone"]


(***************************************************************************)
(* Failures in a run.                                                      *)
(***************************************************************************)
LastStage == IF stages = <<>> THEN "none" ELSE stages[Len(stages)]

LoadStageFailed ==
    rop = "mask" /\ LastStage = "load" /\ iresult.exc # "none"

GenStageFailed == rop = "generate" /\ gpc = "raised"

SaveStageFailed ==
    LastStage = "save" /\ rpc = "exit" /\ iresult.exc # "none"

\* The stages started are a prefix of the stages of the program; a failed
\* stage is the last one and the exit code is 1; a batch that lost
\* records to failures goes on and is saved all the same, with the records
\* left; while the process has no exit code a statement of it is due.
StagesAbort ==
    /\ rop = "mask" =>
          stages \in {<<>>, <<"load">>, <<"load", "mask">>,
                      <<"load", "mask", "save">>}
    /\ rop = "generate" =>
          stages \in {<<>>, <<"generate">>, <<"generate", "save">>}
    /\ LoadStageFailed => exit_code = 1 /\ rpc = "exit" /\ mpc = "idle"
    /\ (rop = "mask" /\ LastStage = "load") => LoadStageFailed
    /\ GenStageFailed => LastStage = "generate" /\ exit_code \in {-1, 1}
    /\ (GenStageFailed /\ rpc = "exit") => exit_code = 1
    /\ SaveStageFailed => exit_code = 1
    /\ (rpc = "exit" /\ stages = <<>>) => exit_code = 1
    /\ (rop = "mask" /\ rpc = "exit" /\ mpc # "idle") => LastStage = "save"
    /\ (rop = "mask" /\ errors > 0) =>
          \/ rpc = "mask" /\ mpc \in {"loop", "done"} /\ exit_code = -1
          \/ LastStage = "save"
    /\ exit_code = -1 =>
          \/ rpc = "start"
          \/ rpc = "mask" /\ mpc \in {"call", "loop", "done"}
          \/ rpc = "generate" /\ gpc \in {"call", "loop", "done", "raised"}
    /\ (rop = "mask" /\ LastStage = "save") =>
          /\ mpc = "done"
          /\ Len(masked_data) = Len(input_data) - errors
          /\ iresult.exc = "none" =>
                file.rows = <<MaskedFieldnames>> \o
                            [k \in 1..Len(masked_data) |->
                               RowCells(MaskedFieldnames, masked_data[k])]

\* Once the process has its exit code no stage starts and no file changes.
ExitIsFinal ==
    exit_code # -1 =>
        /\ exit_code' = exit_code
        /\ stages' = stages
        /\ file' = file /\ dir_exists' = dir_exists
        /\ mpc' = mpc /\ gpc' = gpc

\* C22: in a masking run and in a generation run a failure of the load, of
\* the batch or of the save ends the process with a non-zero exit code and
\* no later stage starts after it; a record that fails inside the mask
\* batch does not end the run, which goes on to the save stage with the
\* records left.
Thm_C22_FailuresAbort ==
    /\ []StagesAbort
    /\ [][ExitIsFinal]_vars

Wit_C22_SavedAfterRecordFailed ==
    /\ rop = "mask" /\ errors = 1
    /\ LastStage = "save" /\ exit_code = 0
    /\ Len(masked_data) = 1
    /\ file.rows = <<MaskedFieldnames,
                     RowCells(MaskedFieldnames, masked_data[1])>>


(***************************************************************************)
(* A masking run that loses every record.                                  *)
(***************************************************************************)
\* The batch returned and every record loaded had failed.
AllFailed ==
    /\ rop = "mask" /\ mpc = "done"
    /\ Len(input_data) >= 1
    /\ errors = Len(input_data)

\* The save of nothing: the empty-data error, no directory made, the file
\* as it was, the exit code 1.
SaveOfNothing ==
    (AllFailed /\ rpc = "mask") =>
        /\ iresult'.exc = "ValueError" /\ iresult'.cause = "none"
        /\ dir_exists' = dir_exists
        /\ file' = file
        /\ stages' = <<"load", "mask", "save">>
        /\ exit_code' = 1
        /\ rpc' = "exit"

\* C27: when every loaded record fails to mask the batch returns the empty
\* list, save_masked_data raises the empty-data error before it touches
\* the file system, the process exits with a non-zero code and the output
\* file is neither created nor overwritten; the output file of a run that
\* ends with code 0 holds at least one data row.
Thm_C27_NothingSavedOfNothing ==
    /\ [](AllFailed => masked_data = <<>> /\ exit_code \in {-1, 1})
    /\ [][SaveOfNothing]_vars
    /\ [](exit_code = 0 =>
             /\ LastStage = "save"
             /\ dir_exists /\ file.exists
             /\ Len(file.rows) >= 2
             /\ file.rows[1] \in {MaskedFieldnames, GeneratedFieldnames}
             /\ file.rows # OldTable)

Wit_C27_OldFileKept ==
    /\ AllFailed /\ Len(input_data) = 2
    /\ rpc = "exit" /\ exit_code = 1
    /\ LastStage = "save" /\ iresult.exc = "ValueError"
    /\ permitted
    /\ file = [exists |-> TRUE, rows |-> OldTable]

====
